---------------------------- MODULE Spec2Model ----------------------------
(***************************************************************************)
(* Model of the navigation / tab-synchronisation logic of                  *)
(* ui/web/src/components/Layout.tsx (keyops).                              *)
(*                                                                         *)
(* Layout.tsx holds the menu cache (fetchMenus), the menu tree helpers     *)
(* (findMenuByPath, getMenuTitle, convertMenusToGroups), the path matcher  *)
(* (isPathActive) and the effects that reconcile the open tabs with the    *)
(* menu tree, the route and the locale.  The tab collection itself lives   *)
(* in contexts/TabsContext (addTab, removeTab, forceRemoveTab,             *)
(* cleanInvalidTabs, updateTabsClosable, getPendingRemovedTabId); that     *)
(* file is not part of the sources at hand, so those six operations are    *)
(* modelled from the specification (sections 3 and 4.4) and from the way   *)
(* Layout.tsx calls them.                                                  *)
(*                                                                         *)
(* The component is followed by seven machines over the same variables,    *)
(* each one stepping the state of one part and leaving the rest alone:     *)
(* Spec (tabs against menu loads and route changes), SpecShell (sidebar    *)
(* clicks, fullscreen pages, login, root, locale), SpecCache (fetchMenus), *)
(* SpecMatch (isPathActive), SpecGroups (sidebar groups and their          *)
(* expansion), SpecSettle (the effects running again after the last        *)
(* trigger from outside, under weak fairness) and SpecTree (the menu tree  *)
(* helpers called on loaded trees).                                        *)
(***************************************************************************)
EXTENDS Integers, Sequences, FiniteSets, TLC

VARIABLES
    menus,                 \* useState<MenuType[]>            (Layout.tsx:79)
    tabs,                  \* useTabs().tabs                  (Layout.tsx:72)
    pendingRemovedTabId,   \* behind getPendingRemovedTabId() (Layout.tsx:72)
    prevPath,              \* prevPathRef.current             (Layout.tsx:82)
    location,              \* location.pathname               (Layout.tsx:69)
    lang,                  \* i18n.language                   (Layout.tsx:67)
    cachedMenus,           \* sessionStorage user_menus_cache           (Layout.tsx:88)
    cachedTimestamp,       \* sessionStorage user_menus_cache_timestamp (Layout.tsx:89)
    now,                   \* Date.now(), in minutes
    inflight,              \* the getUserMenus() calls awaiting their response, by call number
    fetchCalls,            \* number of getUserMenus() calls made so far
    openGroups,            \* useState<{ [key: string]: boolean }>({}) (Layout.tsx:81)
    navFrom,               \* location.state?.from               (Layout.tsx:255)
    referrer,              \* document.referrer                  (Layout.tsx:262)
    storedFrom,            \* sessionStorage ticket_detail_from  (Layout.tsx:278)
    userOpened,            \* history: the keys the user's last toggle set to true
    quiet,                 \* no trigger arrives from outside any more
    lastCall,              \* history: the last call of findMenuByPath or getMenuTitle
    lastEval,              \* history: the last evaluation of isPathActive
    initialDup,            \* history: the restored tab collection had a duplicate
    last,                  \* history: the last tab operation and the state it started from
    lastLoad               \* history: the last step of fetchMenus and what it started from

vars == <<menus, tabs, pendingRemovedTabId, prevPath, location, lang,
          cachedMenus, cachedTimestamp, now, inflight, fetchCalls,
          openGroups, navFrom, referrer, storedFrom, userOpened, lastEval,
          quiet, lastCall, initialDup, last, lastLoad>>

tabVars == <<menus, tabs, pendingRemovedTabId, prevPath, location, lang, initialDup>>
cacheVars == <<cachedMenus, cachedTimestamp, now, inflight, fetchCalls, lastLoad>>
groupVars == <<openGroups, userOpened>>
matchVars == <<navFrom, referrer, storedFrom, lastEval>>
auxVars == <<quiet, lastCall>>

-----------------------------------------------------------------------------
(* Bounds of the model *)

\* longest tab collection restored from storage at start-up
MaxRestoredTabs == 2
\* the clock runs from 0 to MaxClock minutes
MaxClock == 11
\* getUserMenus() is called at most this many times in one behaviour
MaxFetches == 2

-----------------------------------------------------------------------------
(* Strings, as JavaScript's String methods compute them *)

StartsWith(s, p) == Len(s) >= Len(p) /\ SubSeq(s, 1, Len(p)) = p

EndsWith(s, p) == Len(s) >= Len(p) /\ SubSeq(s, Len(s) - Len(p) + 1, Len(s)) = p

LowerChar(c) ==
    CASE c = "A" -> "a" [] c = "B" -> "b" [] c = "C" -> "c" [] c = "D" -> "d"
      [] c = "E" -> "e" [] c = "F" -> "f" [] c = "G" -> "g" [] c = "H" -> "h"
      [] c = "I" -> "i" [] c = "J" -> "j" [] c = "K" -> "k" [] c = "L" -> "l"
      [] c = "M" -> "m" [] c = "N" -> "n" [] c = "O" -> "o" [] c = "P" -> "p"
      [] c = "Q" -> "q" [] c = "R" -> "r" [] c = "S" -> "s" [] c = "T" -> "t"
      [] c = "U" -> "u" [] c = "V" -> "v" [] c = "W" -> "w" [] c = "X" -> "x"
      [] c = "Y" -> "y" [] c = "Z" -> "z" [] OTHER -> c

RECURSIVE ToLower(_)
ToLower(s) ==
    IF Len(s) = 0 THEN ""
    ELSE LowerChar(SubSeq(s, 1, 1)) \o ToLower(SubSeq(s, 2, Len(s)))

\* the alternatives of the regular expression at Layout.tsx:563
AssetExtensions ==
    {"js", "css", "png", "jpg", "jpeg", "gif", "ico", "svg",
     "woff", "woff2", "ttf", "eot", "map"}

\* the position of the last "." of s at or before position i, 0 if there is none
RECURSIVE LastDot(_, _)
LastDot(s, i) ==
    IF i = 0 THEN 0
    ELSE IF SubSeq(s, i, i) = "." THEN i
    ELSE LastDot(s, i - 1)

\* currentPath.match(/\.(js|css|...|map)$/i): no alternative holds a ".", so the
\* match is the text after the last "." being one of them, whatever its case
MatchesAssetExtension(path) ==
    \E d \in {LastDot(path, Len(path))} :
        d > 0 /\ ToLower(SubSeq(path, d + 1, Len(path))) \in AssetExtensions

-----------------------------------------------------------------------------
(* Menu trees *)

\* findMenuByPath's null
NullMenu == [null |-> TRUE]

\* getPendingRemovedTabId's null
NoTab == "<null>"

Node(id, path, name, hidden, component, title, closeTab, pinned, children) ==
    [id |-> id, path |-> path, name |-> name, hidden |-> hidden,
     component |-> component,
     meta |-> [title |-> title, closeTab |-> closeTab, pinned |-> pinned],
     children |-> children]

Leaf(id, path, name, title) ==
    Node(id, path, name, FALSE, TRUE, title, FALSE, FALSE, <<>>)

\* the old dashboard page: its tab is pinned (not closable)
DashboardNode ==
    Node("menu-dashboard", "/dashboard", "dashboard", FALSE, TRUE, "DB-Dashboard", FALSE, TRUE, <<>>)
ReportsNode == Leaf("menu-reports", "/reports", "reports", "DB-Reports")
\* a hidden page whose tab closes when the route leaves it
FormNode ==
    Node("menu-form", "/fill-form", "form", TRUE, TRUE, "DB-Form", TRUE, FALSE, <<>>)
\* a container with a path and no page of its own
FolderNode ==
    Node("menu-folder", "/folder", "folder", FALSE, FALSE, "DB-Folder", FALSE, FALSE, <<>>)
LoginNode == Leaf("menu-login", "/login", "login", "DB-Login")
TerminalNode == Leaf("menu-terminal", "/terminal", "terminal", "DB-Terminal")

\* the full tree: a structural group (empty path) over the pages
FullTree ==
    << Node("grp-ops", "", "ops", FALSE, FALSE, "DB-Ops", FALSE, FALSE,
            <<ReportsNode, FormNode, FolderNode>>),
       DashboardNode, LoginNode, TerminalNode >>

\* the tree of a user who lost the permission for /reports and /dashboard
ReducedTree ==
    << Node("grp-ops", "", "ops", FALSE, FALSE, "DB-Ops", FALSE, FALSE,
            <<FormNode>>) >>

EmptyTree == <<>>

Trees == {EmptyTree, FullTree, ReducedTree}

\* mutant: hidden menus and what is below them are not visited
RECURSIVE findMenuByPath_SkipsHidden(_, _)
findMenuByPath_SkipsHidden(path, menuList) ==
    IF Len(menuList) = 0 THEN NullMenu
    ELSE LET menu == Head(menuList) IN
         IF menu.hidden THEN findMenuByPath_SkipsHidden(path, Tail(menuList))
         ELSE IF menu.path = path THEN menu
         ELSE LET found == IF Len(menu.children) > 0
                           THEN findMenuByPath_SkipsHidden(path, menu.children)
                           ELSE NullMenu
              IN IF found # NullMenu THEN found
                 ELSE findMenuByPath_SkipsHidden(path, Tail(menuList))

RECURSIVE findMenuByPath(_, _)
findMenuByPath(path, menuList) ==
    IF Len(menuList) = 0 THEN NullMenu
    ELSE LET menu == Head(menuList) IN
         IF menu.path = path THEN menu
         ELSE LET found == IF Len(menu.children) > 0
                           THEN findMenuByPath(path, menu.children)
                           ELSE NullMenu
              IN IF found # NullMenu THEN found
                 ELSE findMenuByPath(path, Tail(menuList))

-----------------------------------------------------------------------------
(* Translation and titles *)

Languages == {"en", "zh"}

\* t(key, {defaultValue: ''}) of react-i18next over a small resource bundle
Translate(lng, key) ==
    CASE lng = "en" /\ key = "menu.groups.ops" -> "Operations"
      [] lng = "en" /\ key = "menu.dashboard" -> "Dashboard"
      [] lng = "en" /\ key = "menu.reports" -> "Reports"
      [] lng = "en" /\ key = "menu.form" -> "Form"
      [] lng = "zh" /\ key = "menu.groups.ops" -> "YunWei"
      [] lng = "zh" /\ key = "menu.dashboard" -> "YiBiaoPan"
      [] lng = "zh" /\ key = "menu.reports" -> "BaoBiao"
      [] lng = "zh" /\ key = "menu.form" -> "BiaoDan"
      [] lng = "en" /\ key = "menu.groups.assets" -> "Assets"
      [] lng = "en" /\ key = "menu.assets" -> "Asset list"
      [] lng = "zh" /\ key = "menu.groups.assets" -> "ZiChan"
      [] lng = "zh" /\ key = "menu.assets" -> "ZiChanLieBiao"
      [] lng = "en" /\ key = "menu.groups.echo" -> "menu.groups.echo"
      [] lng = "en" /\ key = "menu.echo" -> "Echo"
      [] lng = "zh" /\ key = "menu.echo" -> "menu.echo"
      [] OTHER -> ""

\* mutant: the item-scope key is looked up before the group-scope key
getMenuTitle_MenuKeyFirst(menu, lng) ==
    LET groupKey == "menu.groups." \o menu.name
        groupTranslation == Translate(lng, groupKey)
        menuKey == "menu." \o menu.name
        menuTranslation == Translate(lng, menuKey)
    IN IF menuTranslation # "" /\ menuTranslation # menuKey THEN menuTranslation
       ELSE IF groupTranslation # "" /\ groupTranslation # groupKey THEN groupTranslation
       ELSE menu.name

getMenuTitle(menu, lng) ==
    LET groupKey == "menu.groups." \o menu.name
        groupTranslation == Translate(lng, groupKey)
        menuKey == "menu." \o menu.name
        menuTranslation == Translate(lng, menuKey)
    IN IF groupTranslation # "" /\ groupTranslation # groupKey THEN groupTranslation
       ELSE IF menuTranslation # "" /\ menuTranslation # menuKey THEN menuTranslation
       ELSE menu.name

-----------------------------------------------------------------------------
(* The tab collection (contexts/TabsContext), modelled from the            *)
(* specification: a Tab is [id, path, title, closable], id = path or the   *)
(* sentinel "home"; the collection is ordered by insertion.                *)

\* the permanently retired path (Layout.tsx:296)
RetiredPath == "/dashboard"

\* path || 'home'  (Layout.tsx:588, 613)
TabId(path) == IF path = "" THEN "home" ELSE path

HasTab(ts, id) == \E i \in 1..Len(ts) : ts[i].id = id

HasPath(ts, path) == \E i \in 1..Len(ts) : ts[i].path = path

\* closable, derived from the owning menu's pin semantics
MenuClosable(menu) == ~menu.meta.pinned

\* mutant: addTab appends without looking for an open tab of the same id
addTab_AlwaysAppend(ts, menu) ==
    Append(ts, [id |-> TabId(menu.path), path |-> menu.path, title |-> menu.meta.title,
                closable |-> MenuClosable(menu)])

\* addTab(menu): a tab for menu.path titled menu.meta.title; an open tab for
\* that path is retitled in place, otherwise the tab is appended
addTab(ts, menu) ==
    LET id == TabId(menu.path) IN
    IF HasTab(ts, id)
    THEN [i \in 1..Len(ts) |->
            IF ts[i].id = id THEN [ts[i] EXCEPT !.title = menu.meta.title] ELSE ts[i]]
    ELSE Append(ts, [id |-> id, path |-> menu.path, title |-> menu.meta.title,
                     closable |-> MenuClosable(menu)])

\* removeTab(id): the normal close; a non-closable tab stays; a closed tab's
\* id becomes the PendingRemoval marker
removeTab(ts, pend, id) ==
    IF HasTab(ts, id)
    THEN LET i == CHOOSE k \in 1..Len(ts) :
                      ts[k].id = id /\ \A j \in 1..(k - 1) : ts[j].id # id
         IN IF ts[i].closable
            THEN [tabs |-> SelectSeq(ts, LAMBDA t : t.id # id), pending |-> id]
            ELSE [tabs |-> ts, pending |-> pend]
    ELSE [tabs |-> ts, pending |-> pend]

\* forceRemoveTab(path): removes regardless of closable
forceRemoveTab(ts, path) == SelectSeq(ts, LAMBDA t : t.path # path)

\* cleanInvalidTabs(menus): drops the tabs whose path is in no menu
cleanInvalidTabs(ts, menuList) ==
    SelectSeq(ts, LAMBDA t : findMenuByPath(t.path, menuList) # NullMenu)

\* updateTabsClosable(menus): closable of every tab from its menu
updateTabsClosable(ts, menuList) ==
    [i \in 1..Len(ts) |->
        LET menu == findMenuByPath(ts[i].path, menuList) IN
        IF menu = NullMenu THEN ts[i]
        ELSE [ts[i] EXCEPT !.closable = MenuClosable(menu)]]

\* mutant: the marker stays after it has made a creation be skipped
consumePendingRemoved_Keeps(pend, tabId) == pend

\* the marker is cleared once it has made a creation be skipped
consumePendingRemoved(pend, tabId) == IF pend = tabId THEN NoTab ELSE pend

-----------------------------------------------------------------------------
(* The menu-loaded effect, Layout.tsx:290-395 *)

\* { ...menu, meta: { ...menu.meta, title: correctTitle } }
menuWithCorrectTitle(menu, correctTitle) == [menu EXCEPT !.meta.title = correctTitle]

\* tabsToUpdate.forEach(... addTab(menuWithCorrectTitle))
RECURSIVE RetitleBatch(_, _)
RetitleBatch(ts, upd) ==
    IF Len(upd) = 0 THEN ts
    ELSE RetitleBatch(addTab(ts, menuWithCorrectTitle(Head(upd).menu, Head(upd).correctTitle)),
                      Tail(upd))

\* mutant: the retired tab is closed with removeTab, which honours closable
ForceEvictStep_NormalClose(snapshot, live) ==
    IF HasPath(snapshot, RetiredPath)
    THEN removeTab(live, NoTab, TabId(RetiredPath)).tabs
    ELSE live

\* Layout.tsx:295-303: forceRemoveTab once per /dashboard tab of the rendered tabs
ForceEvictStep(snapshot, live) ==
    IF HasPath(snapshot, RetiredPath) THEN forceRemoveTab(live, RetiredPath) ELSE live

\* mutant: the call of cleanInvalidTabs is missing
PruneStep_Skipped(live, menuList) == live

\* Layout.tsx:306: cleanInvalidTabs(menus)
PruneStep(live, menuList) == cleanInvalidTabs(live, menuList)

\* Layout.tsx:311: updateTabsClosable(menus)
ClosableStep(live, menuList) == updateTabsClosable(live, menuList)

EmptyMap == [p \in {} |-> p]

\* mutant: the loop does not skip the tabs of the retired path
DedupStep_NoRetiredSkip(acc, tab, menuList, lng) ==
    LET menu == findMenuByPath(tab.path, menuList) IN
    IF menu = NullMenu THEN acc
    ELSE LET correctTitle == getMenuTitle(menu, lng) IN
         IF tab.path \in DOMAIN acc.map
         THEN LET existingTab == acc.map[tab.path] IN
              IF existingTab.title = correctTitle /\ tab.title # correctTitle
              THEN LET r == removeTab(acc.tabs, acc.pending, tab.id)
                   IN [acc EXCEPT !.tabs = r.tabs, !.pending = r.pending]
              ELSE IF tab.title = correctTitle /\ existingTab.title # correctTitle
              THEN LET r == removeTab(acc.tabs, acc.pending, existingTab.id)
                   IN [acc EXCEPT !.tabs = r.tabs, !.pending = r.pending,
                                  !.map = (tab.path :> tab) @@ acc.map]
              ELSE LET r == removeTab(acc.tabs, acc.pending, tab.id)
                   IN [acc EXCEPT !.tabs = r.tabs, !.pending = r.pending]
         ELSE [acc EXCEPT !.map = (tab.path :> tab) @@ acc.map,
                          !.upd = IF tab.title # correctTitle
                                  THEN Append(@, [menu |-> menu, correctTitle |-> correctTitle])
                                  ELSE @]

\* one iteration of tabs.forEach at Layout.tsx:319-361; acc holds the live tab
\* state, the marker, pathToTabMap and tabsToUpdate
DedupStep(acc, tab, menuList, lng) ==
    IF tab.path = RetiredPath THEN acc
    ELSE LET menu == findMenuByPath(tab.path, menuList) IN
         IF menu = NullMenu THEN acc
         ELSE LET correctTitle == getMenuTitle(menu, lng) IN
              IF tab.path \in DOMAIN acc.map
              THEN LET existingTab == acc.map[tab.path] IN
                   IF existingTab.title = correctTitle /\ tab.title # correctTitle
                   THEN LET r == removeTab(acc.tabs, acc.pending, tab.id)
                        IN [acc EXCEPT !.tabs = r.tabs, !.pending = r.pending]
                   ELSE IF tab.title = correctTitle /\ existingTab.title # correctTitle
                   THEN LET r == removeTab(acc.tabs, acc.pending, existingTab.id)
                        IN [acc EXCEPT !.tabs = r.tabs, !.pending = r.pending,
                                       !.map = (tab.path :> tab) @@ acc.map]
                   ELSE LET r == removeTab(acc.tabs, acc.pending, tab.id)
                        IN [acc EXCEPT !.tabs = r.tabs, !.pending = r.pending]
              ELSE [acc EXCEPT !.map = (tab.path :> tab) @@ acc.map,
                               !.upd = IF tab.title # correctTitle
                                       THEN Append(@, [menu |-> menu, correctTitle |-> correctTitle])
                                       ELSE @]

RECURSIVE DedupLoop(_, _, _, _)
DedupLoop(acc, snapshot, menuList, lng) ==
    IF Len(snapshot) = 0 THEN acc
    ELSE DedupLoop(DedupStep(acc, Head(snapshot), menuList, lng),
                   Tail(snapshot), menuList, lng)

\* mutant: updateTabsClosable is called after the dedup loop instead of before it
MenuLoadedEffect_ClosableAfterDedup(ts, pend, menuList, lng) ==
    IF Len(menuList) > 0
    THEN LET evicted == ForceEvictStep(ts, ts)
             cleaned == PruneStep(evicted, menuList)
         IN IF Len(ts) > 0
            THEN LET acc == DedupLoop([tabs |-> cleaned, pending |-> pend,
                                       map |-> EmptyMap, upd |-> <<>>],
                                      ts, menuList, lng)
                 IN [tabs |-> ClosableStep(RetitleBatch(acc.tabs, acc.upd), menuList),
                     pending |-> acc.pending]
            ELSE [tabs |-> cleaned, pending |-> pend]
    ELSE [tabs |-> ts, pending |-> pend]

\* the effect on the rendered tabs ts; yields the tab collection and the marker
MenuLoadedEffect(ts, pend, menuList, lng) ==
    IF Len(menuList) > 0
    THEN LET evicted == ForceEvictStep(ts, ts)
             cleaned == PruneStep(evicted, menuList)
         IN IF Len(ts) > 0
            THEN LET updated == ClosableStep(cleaned, menuList)
                     acc == DedupLoop([tabs |-> updated, pending |-> pend,
                                       map |-> EmptyMap, upd |-> <<>>],
                                      ts, menuList, lng)
                 IN [tabs |-> RetitleBatch(acc.tabs, acc.upd), pending |-> acc.pending]
            ELSE [tabs |-> cleaned, pending |-> pend]
    ELSE [tabs |-> ts, pending |-> pend]

-----------------------------------------------------------------------------
(* The locale effect, Layout.tsx:421-459 *)

RECURSIVE LocaleUpdates(_, _, _)
LocaleUpdates(snapshot, menuList, lng) ==
    IF Len(snapshot) = 0 THEN <<>>
    ELSE LET tab == Head(snapshot)
             menu == findMenuByPath(tab.path, menuList)
             rest == LocaleUpdates(Tail(snapshot), menuList, lng)
         IN IF menu # NullMenu /\ tab.title # getMenuTitle(menu, lng)
            THEN <<[menu |-> menu, correctTitle |-> getMenuTitle(menu, lng)]>> \o rest
            ELSE rest

\* mutant: only the first correction of the batch is applied
LocaleEffect_FirstOnly(ts, menuList, lng) ==
    IF Len(menuList) > 0 /\ Len(ts) > 0
    THEN LET upd == LocaleUpdates(ts, menuList, lng)
         IN IF Len(upd) = 0 THEN ts ELSE RetitleBatch(ts, <<Head(upd)>>)
    ELSE ts

\* mutant: a tab to retitle is closed and opened again with the new title
RECURSIVE ReopenBatch(_, _)
ReopenBatch(ts, upd) ==
    IF Len(upd) = 0 THEN ts
    ELSE LET menu == Head(upd).menu
             id == TabId(menu.path)
         IN ReopenBatch(Append(SelectSeq(ts, LAMBDA t : t.id # id),
                               [id |-> id, path |-> menu.path,
                                title |-> Head(upd).correctTitle,
                                closable |-> MenuClosable(menu)]),
                        Tail(upd))

LocaleEffect_Reopens(ts, menuList, lng) ==
    IF Len(menuList) > 0 /\ Len(ts) > 0
    THEN ReopenBatch(ts, LocaleUpdates(ts, menuList, lng))
    ELSE ts

LocaleEffect(ts, menuList, lng) ==
    IF Len(menuList) > 0 /\ Len(ts) > 0
    THEN RetitleBatch(ts, LocaleUpdates(ts, menuList, lng))
    ELSE ts

-----------------------------------------------------------------------------
(* The route-change effect, Layout.tsx:556-655 *)

\* Layout.tsx:561-563
IsStaticAsset(currentPath) ==
    \/ StartsWith(currentPath, "/assets/")
    \/ StartsWith(currentPath, "/static/")
    \/ MatchesAssetExtension(currentPath)

\* mutant: the startsWith('/template-editor/') alternative is missing
IsFullscreen_ExactOnly(path) == path = "/terminal" \/ path = "/template-editor"

\* Layout.tsx:570 (and 577-578 for prevPathRef.current)
IsFullscreen(path) ==
    path = "/terminal" \/ path = "/template-editor" \/ StartsWith(path, "/template-editor/")

\* Layout.tsx:597
\* mutant: only the login page is kept out of the tabs
IsLoginOrRoot_LoginOnly(currentPath) == currentPath = "/login"

IsLoginOrRoot(currentPath) == currentPath = "/login" \/ currentPath = "/"

\* mutant: the tab of a closeTab menu is closed although the route has not left it
AutoCloseStep_NoSamePathCheck(ts, pend, prev, currentPath, menuList) ==
    IF prev # ""
    THEN LET prevMenu == findMenuByPath(prev, menuList) IN
         IF prevMenu # NullMenu /\ prevMenu.meta.closeTab
         THEN removeTab(ts, pend, TabId(prev))
         ELSE [tabs |-> ts, pending |-> pend]
    ELSE [tabs |-> ts, pending |-> pend]

\* Layout.tsx:583-591: the tab of a closeTab menu is closed when the route leaves it
AutoCloseStep(ts, pend, prev, currentPath, menuList) ==
    IF prev # "" /\ prev # currentPath
    THEN LET prevMenu == findMenuByPath(prev, menuList) IN
         IF prevMenu # NullMenu /\ prevMenu.meta.closeTab
         THEN removeTab(ts, pend, TabId(prev))
         ELSE [tabs |-> ts, pending |-> pend]
    ELSE [tabs |-> ts, pending |-> pend]

\* mutant: the PendingRemoval marker is not consulted
ShouldAddTab_NoPendingCheck(ts, pend, currentPath, menuList) ==
    /\ Len(menuList) > 0
    /\ LET menu == findMenuByPath(currentPath, menuList) IN
       /\ menu # NullMenu
       /\ menu.component
       /\ ~HasTab(ts, TabId(currentPath))

\* mutant: a menu without a component counts as a page
ShouldAddTab_NoComponentCheck(ts, pend, currentPath, menuList) ==
    /\ Len(menuList) > 0
    /\ LET menu == findMenuByPath(currentPath, menuList) IN
       /\ menu # NullMenu
       /\ ~HasTab(ts, TabId(currentPath))
       /\ pend # TabId(currentPath)

\* Layout.tsx:604-647: the tab of the current route is added when it is a page of
\* the menu, is not open and is not the tab just removed
ShouldAddTab(ts, pend, currentPath, menuList) ==
    /\ Len(menuList) > 0
    /\ LET menu == findMenuByPath(currentPath, menuList) IN
       /\ menu # NullMenu
       /\ menu.component
       /\ ~HasTab(ts, TabId(currentPath))
       /\ pend # TabId(currentPath)

AddCurrentStep(snapshot, live, pend, currentPath, menuList) ==
    IF ShouldAddTab(snapshot, pend, currentPath, menuList)
    THEN [tabs |-> addTab(live, findMenuByPath(currentPath, menuList)), pending |-> pend]
    ELSE [tabs |-> live,
          pending |-> IF Len(menuList) > 0
                         /\ findMenuByPath(currentPath, menuList) # NullMenu
                         /\ findMenuByPath(currentPath, menuList).component
                      THEN consumePendingRemoved(pend, TabId(currentPath))
                      ELSE pend]

\* mutant: the tab of the current route is decided and added before the tab of
\* the previous route is closed
RouteEffect_AddBeforeClose(currentPath, menuList, ts, pend, prev) ==
    IF IsStaticAsset(currentPath) \/ IsFullscreen(currentPath)
    THEN [tabs |-> ts, pending |-> pend, prev |-> prev]
    ELSE LET prev1 == IF IsFullscreen(prev) THEN "" ELSE prev
             added == IF IsLoginOrRoot(currentPath)
                      THEN [tabs |-> ts, pending |-> pend]
                      ELSE AddCurrentStep(ts, ts, pend, currentPath, menuList)
             closed == AutoCloseStep(added.tabs, added.pending, prev1, currentPath, menuList)
         IN [tabs |-> closed.tabs, pending |-> closed.pending, prev |-> currentPath]

\* mutant: the effect acts on a route change only, not when the menus arrive
\* for the route at hand
RouteEffect_RouteChangeOnly(currentPath, menuList, ts, pend, prev) ==
    IF IsStaticAsset(currentPath) \/ IsFullscreen(currentPath) \/ prev = currentPath
    THEN [tabs |-> ts, pending |-> pend, prev |-> prev]
    ELSE LET prev1 == IF IsFullscreen(prev) THEN "" ELSE prev
             closed == AutoCloseStep(ts, pend, prev1, currentPath, menuList)
         IN IF IsLoginOrRoot(currentPath)
            THEN [tabs |-> closed.tabs, pending |-> closed.pending, prev |-> currentPath]
            ELSE LET added == AddCurrentStep(ts, closed.tabs, closed.pending,
                                             currentPath, menuList)
                 IN [tabs |-> added.tabs, pending |-> added.pending, prev |-> currentPath]

\* the effect on the rendered tabs ts; yields tabs, marker and prevPathRef.current
RouteEffect(currentPath, menuList, ts, pend, prev) ==
    IF IsStaticAsset(currentPath) \/ IsFullscreen(currentPath)
    THEN [tabs |-> ts, pending |-> pend, prev |-> prev]
    ELSE LET prev1 == IF IsFullscreen(prev) THEN "" ELSE prev
             closed == AutoCloseStep(ts, pend, prev1, currentPath, menuList)
         IN IF IsLoginOrRoot(currentPath)
            THEN [tabs |-> closed.tabs, pending |-> closed.pending, prev |-> currentPath]
            ELSE LET added == AddCurrentStep(ts, closed.tabs, closed.pending,
                                             currentPath, menuList)
                 IN [tabs |-> added.tabs, pending |-> added.pending, prev |-> currentPath]

-----------------------------------------------------------------------------
(* The path matcher: isPathActive, Layout.tsx:202-287 *)

\* path.split('/').filter(Boolean), from character i on; cur is the segment read so far
RECURSIVE SplitFrom(_, _, _)
SplitFrom(s, i, cur) ==
    IF i > Len(s) THEN (IF cur = "" THEN <<>> ELSE <<cur>>)
    ELSE IF SubSeq(s, i, i) = "/"
         THEN (IF cur = "" THEN <<>> ELSE <<cur>>) \o SplitFrom(s, i + 1, "")
         ELSE SplitFrom(s, i + 1, cur \o SubSeq(s, i, i))

PathParts(path) == SplitFrom(path, 1, "")

\* parts.join('/')
RECURSIVE JoinParts(_)
JoinParts(parts) ==
    IF Len(parts) = 0 THEN ""
    ELSE IF Len(parts) = 1 THEN parts[1]
    ELSE parts[1] \o "/" \o JoinParts(Tail(parts))

\* s.includes(sub)
Includes(s, sub) ==
    \E i \in 1..(Len(s) - Len(sub) + 1) : SubSeq(s, i, i + Len(sub) - 1) = sub

\* Layout.tsx:204
ExactRule(menuPath, currentPath) == menuPath = currentPath

\* Layout.tsx:209
FillTicketFormRule(menuPath, currentPath) ==
    menuPath = "/daily-workorders" /\ StartsWith(currentPath, "/fill-ticket-form")

\* mutant: the number of segments is not looked at
ServicesRule_AnyDepth(menuPath, currentPath) ==
    /\ menuPath = "/services"
    /\ StartsWith(currentPath, "/services/")
    /\ currentPath # "/services"

\* Layout.tsx:214-220
ServicesRule(menuPath, currentPath) ==
    /\ menuPath = "/services"
    /\ StartsWith(currentPath, "/services/")
    /\ currentPath # "/services"
    /\ LET pathParts == PathParts(currentPath)
       IN Len(pathParts) = 2 /\ pathParts[1] = "services"

\* Layout.tsx:223 and 228
ClustersRule(menuPath, currentPath) ==
    \/ /\ menuPath = "/clusters"
       /\ StartsWith(currentPath, "/clusters/")
       /\ EndsWith(currentPath, "/status")
    \/ /\ menuPath = "/cluster-permissions"
       /\ StartsWith(currentPath, "/clusters/")
       /\ EndsWith(currentPath, "/permissions")

\* Layout.tsx:234-240
K8sDeploymentsRule(menuPath, currentPath) ==
    /\ menuPath = "/k8s/deployments"
    /\ StartsWith(currentPath, "/k8s/deployments/")
    /\ currentPath # "/k8s/deployments"
    /\ LET pathParts == PathParts(currentPath)
       IN Len(pathParts) >= 5 /\ pathParts[1] = "k8s" /\ pathParts[2] = "deployments"

\* mutant: only the full detail route cluster/namespace/name counts
K8sRule_FullDetailOnly(menuPath, currentPath) ==
    /\ StartsWith(menuPath, "/k8s/")
    /\ StartsWith(currentPath, menuPath \o "/")
    /\ currentPath # menuPath
    /\ Len(PathParts(currentPath)) >= Len(PathParts(menuPath)) + 3

\* Layout.tsx:244-251
K8sRule(menuPath, currentPath) ==
    /\ StartsWith(menuPath, "/k8s/")
    /\ StartsWith(currentPath, menuPath \o "/")
    /\ currentPath # menuPath
    /\ LET pathParts == PathParts(currentPath)
           menuPathParts == PathParts(menuPath)
       IN /\ Len(pathParts) > Len(menuPathParts)
          /\ JoinParts(SubSeq(pathParts, 1, Len(menuPathParts))) = JoinParts(menuPathParts)

\* mutant: the test reads the route of the page instead of the argument
TicketApplies_UsesLocation(currentPath) == StartsWith(location, "/ticket/")

\* Layout.tsx:254
TicketApplies(currentPath) == StartsWith(currentPath, "/ticket/")

\* Layout.tsx:263-276: the menu a referrer stands for, "" when it stands for none
ReferrerOrigin(ref) ==
    IF ref = "" THEN ""
    ELSE IF Includes(ref, "/daily-workorders") \/ Includes(ref, "/fill-ticket-form")
         THEN "/daily-workorders"
    ELSE IF Includes(ref, "/my-tickets") THEN "/my-tickets"
    ELSE IF Includes(ref, "/all-tickets") THEN "/all-tickets"
    ELSE ""

\* mutant: each source of the origin activates its menu without ending the search
TicketRule_NoEarlyReturn(menuPath) ==
    \/ navFrom # "" /\ menuPath = navFrom
    \/ ReferrerOrigin(referrer) # "" /\ menuPath = ReferrerOrigin(referrer)
    \/ storedFrom # "" /\ menuPath = storedFrom
    \/ menuPath = "/my-tickets"

\* mutant: the stored hint is compared without testing that there is one
TicketRule_StoredHintUnchecked(menuPath) ==
    IF navFrom # "" THEN menuPath = navFrom
    ELSE IF ReferrerOrigin(referrer) # "" THEN menuPath = ReferrerOrigin(referrer)
    ELSE menuPath = storedFrom

\* mutant: the stored hint is looked at before the referrer
TicketRule_StoredBeforeReferrer(menuPath) ==
    IF navFrom # "" THEN menuPath = navFrom
    ELSE IF storedFrom # "" THEN menuPath = storedFrom
    ELSE IF ReferrerOrigin(referrer) # "" THEN menuPath = ReferrerOrigin(referrer)
    ELSE menuPath = "/my-tickets"

\* Layout.tsx:255-283: location.state.from, then document.referrer, then the
\* stored hint, then /my-tickets
TicketRule(menuPath) ==
    IF navFrom # "" THEN menuPath = navFrom
    ELSE IF ReferrerOrigin(referrer) # "" THEN menuPath = ReferrerOrigin(referrer)
    ELSE IF storedFrom # "" THEN menuPath = storedFrom
    ELSE menuPath = "/my-tickets"

isPathActive(menuPath, currentPath) ==
    IF ExactRule(menuPath, currentPath) THEN TRUE
    ELSE IF FillTicketFormRule(menuPath, currentPath) THEN TRUE
    ELSE IF ServicesRule(menuPath, currentPath) THEN TRUE
    ELSE IF ClustersRule(menuPath, currentPath) THEN TRUE
    ELSE IF K8sDeploymentsRule(menuPath, currentPath) THEN TRUE
    ELSE IF K8sRule(menuPath, currentPath) THEN TRUE
    ELSE IF TicketApplies(currentPath) THEN TicketRule(menuPath)
    ELSE FALSE

-----------------------------------------------------------------------------
(* The sidebar groups and their expansion, Layout.tsx:462-514 and 657-727 *)

\* Layout.tsx:462-482; a menu without children gives an item without children
RECURSIVE convertMenuToMenuItem(_, _)
convertMenuToMenuItem(menu, lng) ==
    [id |-> menu.id, path |-> menu.path, title |-> getMenuTitle(menu, lng),
     children |-> [i \in 1..Len(menu.children) |->
                      convertMenuToMenuItem(menu.children[i], lng)]]

\* Layout.tsx:491-508: the group of one visible top-level menu
MenuGroupOf(menu, lng) ==
    [id |-> menu.id, title |-> getMenuTitle(menu, lng),
     items |-> IF Len(menu.children) > 0
               THEN LET shown == SelectSeq(menu.children, LAMBDA child : ~child.hidden)
                    IN [i \in 1..Len(shown) |-> convertMenuToMenuItem(shown[i], lng)]
               ELSE <<convertMenuToMenuItem(menu, lng)>>]

\* mutant: the groups without items are not filtered out
convertMenusToGroups_KeepsEmpty(menuList, lng) ==
    LET shown == SelectSeq(menuList, LAMBDA menu : ~menu.hidden)
    IN [i \in 1..Len(shown) |-> MenuGroupOf(shown[i], lng)]

\* Layout.tsx:487-511
convertMenusToGroups(menuList, lng) ==
    LET shown == SelectSeq(menuList, LAMBDA menu : ~menu.hidden)
        groups == [i \in 1..Len(shown) |-> MenuGroupOf(shown[i], lng)]
    IN SelectSeq(groups, LAMBDA group : Len(group.items) > 0)

\* Layout.tsx:668-676
hasActiveItem(group, pathname) ==
    \E i \in 1..Len(group.items) :
        \/ isPathActive(group.items[i].path, pathname)
        \/ \E j \in 1..Len(group.items[i].children) :
              isPathActive(group.items[i].children[j].path, pathname)

\* Layout.tsx:697-707
hasActiveGrandchild(item, pathname) ==
    \E j \in 1..Len(item.children) :
        \/ isPathActive(item.children[j].path, pathname)
        \/ \E k \in 1..Len(item.children[j].children) :
              isPathActive(item.children[j].children[k].path, pathname)

\* `${group.id}-${item.id}`
SubGroupKey(group, item) == group.id \o "-" \o item.id

\* the keys the auto-expand effect sets to true (Layout.tsx:667-725)
ExpandKeys(groups, pathname) ==
    {groups[g].id : g \in {h \in 1..Len(groups) : hasActiveItem(groups[h], pathname)}}
    \cup
    UNION {{SubGroupKey(groups[g], groups[g].items[i]) :
                i \in {k \in 1..Len(groups[g].items) :
                          /\ Len(groups[g].items[k].children) > 0
                          /\ hasActiveGrandchild(groups[g].items[k], pathname)}} :
           g \in 1..Len(groups)}

\* the auto-expand effect, Layout.tsx:665-727: each key found is set to true
\* unless it is true already; no other entry is written
AutoExpand(og, groups, pathname) ==
    LET keys == {k \in ExpandKeys(groups, pathname) : ~(k \in DOMAIN og /\ og[k])}
    IN [k \in DOMAIN og \cup keys |-> IF k \in keys THEN TRUE ELSE og[k]]

\* handleGroupToggle, Layout.tsx:657-662 (and 1090-1093 for a sub-group):
\* { ...prev, [key]: !prev[key] }
handleGroupToggle(og, key) ==
    [k \in DOMAIN og \cup {key} |->
        IF k = key THEN ~(key \in DOMAIN og /\ og[key]) ELSE og[k]]

\* renderMenuItem, Layout.tsx:1069-1096: every item with children, at any level
\* below the group, is rendered with a toggle of its own
RECURSIVE SubGroupKeys(_, _)
SubGroupKeys(group, items) ==
    UNION {(IF Len(items[i].children) > 0 THEN {SubGroupKey(group, items[i])} ELSE {})
               \cup SubGroupKeys(group, items[i].children) :
           i \in 1..Len(items)}

\* the keys the sidebar shows a toggle for (Layout.tsx:958, 1029, 1089)
ToggleKeys(groups) ==
    {groups[g].id : g \in {h \in 1..Len(groups) :
                              \/ Len(groups[h].items) # 1
                              \/ Len(groups[h].items[1].children) > 0}}
    \cup
    UNION {SubGroupKeys(groups[g], groups[g].items) : g \in 1..Len(groups)}

-----------------------------------------------------------------------------
(* A click on a sidebar entry: handleMenuClick, Layout.tsx:517-553 *)

\* Layout.tsx:519 and 527: the pages handleMenuClick opens without a tab
IsFullscreenClick(path) ==
    path = "/terminal" \/ path = "/template-editor" \/ path = "/permissions"

\* Layout.tsx:534-551: the tab collection when handleMenuClick calls navigate(path)
MenuClickTabs(ts, path, menuList) ==
    IF IsFullscreenClick(path) THEN ts
    ELSE LET menu == findMenuByPath(path, menuList) IN
         IF menu # NullMenu /\ menu.component THEN addTab(ts, menu) ELSE ts

-----------------------------------------------------------------------------
(* The menu cache: fetchMenus, Layout.tsx:86-163 *)

\* cacheExpiry = 10 * 60 * 1000 ms, in minutes
CacheExpiry == 10

\* sessionStorage.getItem(cacheKey): no entry, a stored snapshot, or an entry
\* that cannot be read back (getItem or JSON.parse throws)
NoCache == [kind |-> "none", data |-> EmptyTree]
Snapshot(data) == [kind |-> "ok", data |-> data]
Unreadable == [kind |-> "unreadable", data |-> EmptyTree]

\* sessionStorage.getItem(cacheTimestampKey) === null
NoTimestamp == -1

\* Layout.tsx:105-109, 132-136, 147-151: every top-level menu's group collapsed
initialOpenState(menuList) ==
    [id \in {menuList[i].id : i \in 1..Len(menuList)} |-> FALSE]

\* what getUserMenus() may deliver
RemoteTrees == {FullTree, ReducedTree, EmptyTree}

\* mutant: a snapshot of exactly cacheExpiry still counts as fresh
CacheFresh_Inclusive(timestamp, clock) == clock - timestamp <= CacheExpiry

\* now - timestamp < cacheExpiry   (Layout.tsx:102)
CacheFresh(timestamp, clock) == clock - timestamp < CacheExpiry

\* Layout.tsx:92-119: the cached snapshot is used without a remote call
CacheHit(forceRefresh, cache, timestamp, clock) ==
    /\ ~forceRefresh
    /\ cache.kind = "ok"
    /\ timestamp # NoTimestamp
    /\ CacheFresh(timestamp, clock)

\* mutant: the fallback honours the expiry like the normal path
FallbackMenus_FreshOnly(cache, timestamp, clock) ==
    IF cache.kind = "ok" /\ timestamp # NoTimestamp /\ clock - timestamp < CacheExpiry
    THEN cache.data
    ELSE EmptyTree

\* Layout.tsx:140-159: the tree shown after getUserMenus() has failed
FallbackMenus(cache, timestamp, clock) ==
    IF cache.kind = "ok" THEN cache.data ELSE EmptyTree

-----------------------------------------------------------------------------
(* The tab machine: routes, trees and restored tabs the behaviours draw from *)

Routes ==
    {"/reports", "/fill-form", "/dashboard", "/folder", "/login",
     "/terminal", "/template-editor", "/template-editor/7",
     "/assets/index", "/static/doc", "/logo.PNG"}

MkTab(path, title, closable) ==
    [id |-> TabId(path), path |-> path, title |-> title, closable |-> closable]

\* tabs that storage may hold from an earlier session
RestoredTabPool ==
    {MkTab("/dashboard", "Dashboard", c) : c \in BOOLEAN}
        \cup {MkTab("/reports", "Reports", TRUE)}
        \cup {MkTab("/reports", "Report", c) : c \in BOOLEAN}

RestoredTabs ==
    UNION {[1..n -> RestoredTabPool] : n \in 0..MaxRestoredTabs}

NoDuplicatePath(ts) ==
    \A i, j \in 1..Len(ts) : ts[i].path = ts[j].path => i = j

\* the operation just performed, its argument, and the tabs and marker before it
Hist(op, path) ==
    [op |-> op, path |-> path, tabs |-> tabs, pending |-> pendingRemovedTabId,
     prev |-> prevPath]

\* no group toggled
NoOpenGroups == [k \in {} |-> FALSE]

\* no helper called yet
NoCall == [fn |-> "none"]

\* no hint about the origin of a ticket page, nothing evaluated
NoEval == [menuPath |-> "", currentPath |-> "", from |-> "", referrer |-> "",
           stored |-> "", at |-> "", result |-> FALSE]

ShellInit ==
    /\ openGroups = NoOpenGroups
    /\ userOpened = {}
    /\ navFrom = ""
    /\ referrer = ""
    /\ storedFrom = ""
    /\ lastEval = NoEval
    /\ quiet = FALSE
    /\ lastCall = NoCall

NoLoad == [op |-> "none", force |-> FALSE, fetched |-> FALSE, cache |-> NoCache, age |-> -1]

CacheInit ==
    /\ cachedMenus = NoCache
    /\ cachedTimestamp = NoTimestamp
    /\ now = 0
    /\ inflight = {}
    /\ fetchCalls = 0
    /\ lastLoad = NoLoad

Init ==
    /\ menus = EmptyTree
    /\ tabs \in RestoredTabs
    /\ pendingRemovedTabId = NoTab
    /\ prevPath = ""
    /\ location = "/"
    /\ lang = "en"
    /\ initialDup = ~NoDuplicatePath(tabs)
    /\ last = [op |-> "init", path |-> "", tabs |-> tabs, pending |-> NoTab, prev |-> ""]
    /\ CacheInit
    /\ ShellInit

\* the route changes to currentPath and the route-change effect runs
Navigate(currentPath) ==
    /\ currentPath # location
    /\ \E r \in {RouteEffect(currentPath, menus, tabs, pendingRemovedTabId, prevPath)} :
       /\ location' = currentPath
       /\ tabs' = r.tabs
       /\ pendingRemovedTabId' = r.pending
       /\ prevPath' = r.prev
    /\ last' = Hist("navigate", currentPath)
    /\ UNCHANGED <<menus, lang, initialDup, cacheVars, groupVars, matchVars, auxVars>>

\* the route-change effect runs again for the same route (menus or tabs changed)
RouteEffectAgain ==
    /\ \E r \in {RouteEffect(location, menus, tabs, pendingRemovedTabId, prevPath)} :
       /\ tabs' = r.tabs
       /\ pendingRemovedTabId' = r.pending
       /\ prevPath' = r.prev
    /\ last' = Hist("routeAgain", location)
    /\ UNCHANGED <<menus, location, lang, initialDup, cacheVars, groupVars, matchVars, auxVars>>

\* setMenus(tree) and the menu-loaded effect
MenuTreeLoaded(tree) ==
    /\ \E r \in {MenuLoadedEffect(tabs, pendingRemovedTabId, tree, lang)} :
       /\ menus' = tree
       /\ tabs' = r.tabs
       /\ pendingRemovedTabId' = r.pending
    /\ last' = Hist("menuLoaded", "")
    /\ UNCHANGED <<prevPath, location, lang, initialDup, cacheVars, groupVars, matchVars, auxVars>>

\* the menusLoaded window event: handleMenusLoaded, Layout.tsx:176-178
MenusLoadedEvent(tree) ==
    /\ tabs' = cleanInvalidTabs(tabs, tree)
    /\ last' = Hist("menusLoadedEvent", "")
    /\ UNCHANGED <<menus, pendingRemovedTabId, prevPath, location, lang, initialDup, cacheVars, groupVars, matchVars, auxVars>>

\* i18n.language changes (handleLanguageChange) and the locale effect runs
LocaleChanged(lng) ==
    /\ lng # lang
    /\ lang' = lng
    /\ tabs' = LocaleEffect(tabs, menus, lng)
    /\ last' = Hist("localeChanged", "")
    /\ UNCHANGED <<menus, pendingRemovedTabId, prevPath, location, initialDup, cacheVars, groupVars, matchVars, auxVars>>

\* the locale effect runs again (menus or tabs changed)
LocaleEffectAgain ==
    /\ \E ts \in {LocaleEffect(tabs, menus, lang)} : tabs' = ts
    /\ last' = Hist("localeChanged", "")
    /\ UNCHANGED <<menus, pendingRemovedTabId, prevPath, location, lang, initialDup, cacheVars, groupVars, matchVars, auxVars>>

\* the user closes an open tab in the tab bar
CloseTab(id) ==
    /\ HasTab(tabs, id)
    /\ \E r \in {removeTab(tabs, pendingRemovedTabId, id)} :
       /\ tabs' = r.tabs
       /\ pendingRemovedTabId' = r.pending
    /\ last' = Hist("removeTab", id)
    /\ UNCHANGED <<menus, prevPath, location, lang, initialDup, cacheVars, groupVars, matchVars, auxVars>>

Next ==
    \/ \E p \in Routes : Navigate(p)
    \/ RouteEffectAgain
    \/ \E tree \in Trees : MenuTreeLoaded(tree)
    \/ \E tree \in Trees : MenusLoadedEvent(tree)
    \/ LocaleEffectAgain
    \/ \E i \in 1..Len(tabs) : CloseTab(tabs[i].id)

Spec == Init /\ [][Next]_vars

-----------------------------------------------------------------------------
(* The shell machine: sidebar clicks, fullscreen pages, login, root and the locale *)

PermissionsNode == Leaf("menu-permissions", "/permissions", "permissions", "DB-Permissions")
TemplateEditorNode ==
    Leaf("menu-template-editor", "/template-editor", "templateEditor", "DB-Template")
RootNode == Leaf("menu-home", "/", "home", "DB-Home")

\* a tree with a page for each fullscreen route, for /login and for /
ShellTree ==
    << Node("grp-ops", "", "ops", FALSE, FALSE, "DB-Ops", FALSE, FALSE, <<ReportsNode>>),
       PermissionsNode, TerminalNode, TemplateEditorNode, LoginNode, RootNode >>

ShellRoutes == {"/reports", "/permissions", "/terminal", "/template-editor", "/login", "/"}

ClickRoutes == {"/reports", "/permissions", "/terminal", "/template-editor"}

\* handleMenuClick(path), then the route-change effect for the new route;
\* navigate(path) carries no navigation state
MenuClick(path) ==
    /\ \E r \in {RouteEffect(path, menus, MenuClickTabs(tabs, path, menus),
                              pendingRemovedTabId, prevPath)} :
       /\ location' = path
       /\ tabs' = r.tabs
       /\ pendingRemovedTabId' = r.pending
       /\ prevPath' = r.prev
    /\ navFrom' = ""
    /\ last' = Hist("menuClick", path)
    /\ UNCHANGED <<menus, lang, initialDup, cacheVars, groupVars,
                   referrer, storedFrom, lastEval, auxVars>>

InitShell ==
    /\ menus = EmptyTree
    /\ tabs \in {<<>>, <<MkTab("/reports", "Report", TRUE)>>}
    /\ pendingRemovedTabId = NoTab
    /\ prevPath = ""
    /\ location = "/"
    /\ lang = "en"
    /\ initialDup = FALSE
    /\ last = [op |-> "init", path |-> "", tabs |-> tabs, pending |-> NoTab, prev |-> ""]
    /\ CacheInit
    /\ ShellInit

NextShell ==
    \/ \E p \in ShellRoutes : Navigate(p)
    \/ \E p \in ClickRoutes : MenuClick(p)
    \/ \E tree \in {EmptyTree, ShellTree} : MenuTreeLoaded(tree)
    \/ \E lng \in Languages : LocaleChanged(lng)
    \/ LocaleEffectAgain
    \/ \E i \in 1..Len(tabs) : CloseTab(tabs[i].id)

SpecShell == InitShell /\ [][NextShell]_vars

-----------------------------------------------------------------------------
(* The matcher machine: isPathActive evaluated while the route and the hints
   about the origin of a ticket page change *)

MenuPaths ==
    {"", "/services", "/hosts", "/k8s/pods", "/my-tickets", "/all-tickets",
     "/daily-workorders", "/ticket/55"}

\* the ticket lists below a group with an empty path and a component of its own
TicketTree ==
    << Node("grp-tickets", "", "tickets", FALSE, TRUE, "DB-Tickets", FALSE, FALSE,
            << Leaf("menu-my-tickets", "/my-tickets", "myTickets", "DB-My-Tickets"),
               Leaf("menu-all-tickets", "/all-tickets", "allTickets", "DB-All-Tickets") >>) >>

CurrentPaths ==
    {"/services/42", "/services/web", "/services/42/logs", "/services/42/logs/1",
     "/hosts/5", "/k8s/pods/c1", "/ticket/55", "/ticket/7", "/my-tickets"}

MatchRoutes == {"/ticket/55", "/my-tickets"}

\* location.state.from and the stored hint as the ticket lists set them
NavHints == {"", "/all-tickets", "/daily-workorders"}
StoredHints == {"", "/all-tickets"}
Referrers ==
    {"", "https://ops.example/my-tickets", "https://ops.example/fill-ticket-form?id=3",
     "https://ops.example/hosts"}

\* a render evaluates isPathActive(menuPath, currentPath)
EvalActive(menuPath, currentPath) ==
    /\ lastEval' = [menuPath |-> menuPath, currentPath |-> currentPath,
                    from |-> navFrom, referrer |-> referrer, stored |-> storedFrom,
                    at |-> location,
                    result |-> isPathActive(menuPath, currentPath)]
    /\ UNCHANGED <<tabVars, last, cacheVars, groupVars, navFrom, referrer, storedFrom, auxVars>>

\* the page is entered with another navigation state, referrer or stored hint
ContextChanged(from, ref, stored) ==
    /\ <<from, ref, stored>> # <<navFrom, referrer, storedFrom>>
    /\ navFrom' = from
    /\ referrer' = ref
    /\ storedFrom' = stored
    /\ lastEval' = NoEval
    /\ UNCHANGED <<tabVars, last, cacheVars, groupVars, auxVars>>

InitMatch ==
    /\ menus = EmptyTree
    /\ tabs = <<>>
    /\ pendingRemovedTabId = NoTab
    /\ prevPath = ""
    /\ location = "/"
    /\ lang = "en"
    /\ initialDup = FALSE
    /\ last = [op |-> "init", path |-> "", tabs |-> tabs, pending |-> NoTab, prev |-> ""]
    /\ CacheInit
    /\ ShellInit

NextMatch ==
    \/ \E m \in MenuPaths, c \in CurrentPaths : EvalActive(m, c)
    \/ \E from \in NavHints, ref \in Referrers, stored \in StoredHints :
          ContextChanged(from, ref, stored)
    \/ \E p \in MatchRoutes : Navigate(p)
    \/ menus = EmptyTree /\ MenuTreeLoaded(TicketTree)

SpecMatch == InitMatch /\ [][NextMatch]_vars

-----------------------------------------------------------------------------
(* The cache machine: loads, responses and the clock *)

\* setOpenGroups(initialOpenState) of fetchMenus, then the auto-expand effect,
\* which runs again because menus has changed (Layout.tsx:727)
OpenStateAfterLoad(menuList) ==
    AutoExpand(initialOpenState(menuList), convertMenusToGroups(menuList, lang), location)

TabFrame ==
    UNCHANGED <<tabs, pendingRemovedTabId, prevPath, location, lang, initialDup, last,
                userOpened, matchVars, auxVars>>

LoadHist(op, forceRefresh, fetched) ==
    [op |-> op, force |-> forceRefresh, fetched |-> fetched, cache |-> cachedMenus,
     age |-> IF cachedTimestamp = NoTimestamp THEN -1 ELSE now - cachedTimestamp]

\* fetchMenus(forceRefresh) up to its return or its await (Layout.tsx:86-123)
LoadStart(forceRefresh) ==
    /\ IF CacheHit(forceRefresh, cachedMenus, cachedTimestamp, now)
       THEN /\ menus' = cachedMenus.data
            /\ openGroups' = OpenStateAfterLoad(cachedMenus.data)
            /\ UNCHANGED <<inflight, fetchCalls>>
            /\ lastLoad' = LoadHist("load", forceRefresh, fetchCalls' # fetchCalls)
       ELSE /\ fetchCalls < MaxFetches
            /\ inflight' = inflight \cup {fetchCalls + 1}
            /\ fetchCalls' = fetchCalls + 1
            /\ lastLoad' = LoadHist("load", forceRefresh, fetchCalls' # fetchCalls)
            /\ UNCHANGED <<menus, openGroups>>
    /\ UNCHANGED <<cachedMenus, cachedTimestamp, now>>
    /\ TabFrame

\* mutant: the setItem calls have no try of their own, so a failing write ends in
\* the catch of the remote call (Layout.tsx:140-159)
LoadSucceeds_WriteFailureCaught(req, data, written) ==
    /\ req \in inflight
    /\ inflight' = inflight \ {req}
    /\ cachedMenus' = IF written = "none" THEN cachedMenus ELSE Snapshot(data)
    /\ cachedTimestamp' = IF written = "both" THEN now ELSE cachedTimestamp
    /\ IF written = "both"
       THEN /\ menus' = data
            /\ openGroups' = OpenStateAfterLoad(data)
       ELSE /\ menus' = FallbackMenus(cachedMenus', cachedTimestamp', now)
            /\ openGroups' = IF cachedMenus'.kind = "ok"
                             THEN OpenStateAfterLoad(cachedMenus'.data)
                             ELSE openGroups
    /\ lastLoad' = LoadHist("succeeded", FALSE, FALSE)
                       @@ [req |-> req, data |-> data, written |-> written]
    /\ UNCHANGED <<now, fetchCalls>>
    /\ TabFrame

\* mutant: the response of a call is dropped when a later call has been made
LoadSucceeds_LatestRequestOnly(req, data, written) ==
    /\ req \in inflight
    /\ inflight' = inflight \ {req}
    /\ IF req = fetchCalls
       THEN /\ menus' = data
            /\ openGroups' = OpenStateAfterLoad(data)
            /\ cachedMenus' = IF written = "none" THEN cachedMenus ELSE Snapshot(data)
            /\ cachedTimestamp' = IF written = "both" THEN now ELSE cachedTimestamp
       ELSE UNCHANGED <<menus, openGroups, cachedMenus, cachedTimestamp>>
    /\ lastLoad' = LoadHist("succeeded", FALSE, FALSE)
                        @@ [req |-> req, data |-> data, written |-> written]
    /\ UNCHANGED <<now, fetchCalls>>
    /\ TabFrame

\* the call req of getUserMenus() resolves with data (Layout.tsx:124-139); the two
\* setItem calls may throw: written is "both", "menus" (the second threw) or "none"
LoadSucceeds(req, data, written) ==
    /\ req \in inflight
    /\ inflight' = inflight \ {req}
    /\ menus' = data
    /\ openGroups' = OpenStateAfterLoad(data)
    /\ cachedMenus' = IF written = "none" THEN cachedMenus ELSE Snapshot(data)
    /\ cachedTimestamp' = IF written = "both" THEN now ELSE cachedTimestamp
    /\ lastLoad' = LoadHist("succeeded", FALSE, FALSE)
                        @@ [req |-> req, data |-> data, written |-> written]
    /\ UNCHANGED <<now, fetchCalls>>
    /\ TabFrame

\* getUserMenus() resolves without data: nothing is set (Layout.tsx:124)
LoadWithoutData ==
    /\ \E req \in inflight : inflight' = inflight \ {req}
    /\ lastLoad' = LoadHist("nodata", FALSE, FALSE)
    /\ UNCHANGED <<menus, openGroups, cachedMenus, cachedTimestamp, now, fetchCalls>>
    /\ TabFrame

\* getUserMenus() rejects (Layout.tsx:140-159)
LoadFails ==
    /\ \E req \in inflight : inflight' = inflight \ {req}
    /\ menus' = FallbackMenus(cachedMenus, cachedTimestamp, now)
    /\ openGroups' = IF cachedMenus.kind = "ok"
                     THEN OpenStateAfterLoad(cachedMenus.data)
                     ELSE openGroups
    /\ lastLoad' = LoadHist("failed", FALSE, FALSE)
    /\ UNCHANGED <<cachedMenus, cachedTimestamp, now, fetchCalls>>
    /\ TabFrame

\* handleLogout removes both cache entries (Layout.tsx:762-763)
Logout ==
    /\ cachedMenus # NoCache \/ cachedTimestamp # NoTimestamp
    /\ cachedMenus' = NoCache
    /\ cachedTimestamp' = NoTimestamp
    /\ lastLoad' = NoLoad
    /\ UNCHANGED <<menus, openGroups, now, inflight, fetchCalls>>
    /\ TabFrame

\* a minute passes
Tick ==
    /\ now < MaxClock
    /\ now' = now + 1
    /\ lastLoad' = NoLoad
    /\ UNCHANGED <<menus, openGroups, cachedMenus, cachedTimestamp, inflight, fetchCalls>>
    /\ TabFrame

\* the session starts with whatever sessionStorage holds
InitCache ==
    /\ menus = EmptyTree
    /\ tabs = <<>>
    /\ pendingRemovedTabId = NoTab
    /\ prevPath = ""
    /\ location = "/"
    /\ lang = "en"
    /\ initialDup = FALSE
    /\ last = [op |-> "init", path |-> "", tabs |-> <<>>, pending |-> NoTab, prev |-> ""]
    /\ cachedMenus \in {NoCache, Unreadable} \cup {Snapshot(t) : t \in RemoteTrees}
    /\ cachedTimestamp = IF cachedMenus = NoCache THEN NoTimestamp ELSE 0
    /\ now = 0
    /\ inflight = {}
    /\ fetchCalls = 0
    /\ lastLoad = NoLoad
    /\ ShellInit

NextCache ==
    \/ \E forceRefresh \in BOOLEAN : LoadStart(forceRefresh)
    \/ \E req \in inflight, data \in RemoteTrees, written \in {"both", "menus", "none"} :
          LoadSucceeds(req, data, written)
    \/ LoadWithoutData
    \/ LoadFails
    \/ Logout
    \/ Tick

SpecCache == InitCache /\ [][NextCache]_vars

-----------------------------------------------------------------------------
(* The group machine: menu loads, route changes and toggles of sidebar groups *)

DeploymentsNode == Leaf("menu-deployments", "/k8s/deployments", "deployments", "DB-Deployments")

\* a tree with a third level, a group whose children are all hidden, a page
\* without children and a hidden top-level menu
NestedTree ==
    << Node("grp-k8s", "", "k8s", FALSE, FALSE, "DB-K8s", FALSE, FALSE,
            << Node("menu-workloads", "/k8s", "workloads", FALSE, FALSE, "DB-Workloads",
                    FALSE, FALSE, <<DeploymentsNode>>),
               ReportsNode >>),
       Node("grp-forms", "", "forms", FALSE, FALSE, "DB-Forms", FALSE, FALSE, <<FormNode>>),
       DashboardNode,
       Node("menu-audit", "/audit", "audit", TRUE, TRUE, "DB-Audit", FALSE, FALSE, <<>>) >>

\* a tree with a fourth level: group, item, sub-item and the page below it
DeepTree ==
    << Node("grp-cloud", "", "cloud", FALSE, FALSE, "DB-Cloud", FALSE, FALSE,
            << Node("menu-compute", "", "compute", FALSE, FALSE, "DB-Compute", FALSE, FALSE,
                    << Node("menu-vms", "", "vms", FALSE, FALSE, "DB-VMs", FALSE, FALSE,
                            << Leaf("menu-vm-list", "/vms", "vmList", "DB-VM-List") >>) >>) >>) >>

GroupTrees == {FullTree, NestedTree, DeepTree}

GroupRoutes == {"/reports", "/dashboard", "/k8s/deployments/c1/ns/web", "/vms"}

\* the route changes and the auto-expand effect runs (Layout.tsx:665-727)
GroupNavigate(pathname) ==
    /\ pathname # location
    /\ location' = pathname
    /\ openGroups' = AutoExpand(openGroups, convertMenusToGroups(menus, lang), pathname)
    /\ UNCHANGED <<menus, tabs, pendingRemovedTabId, prevPath, lang, initialDup, last,
                   cacheVars, userOpened, matchVars, auxVars>>

\* the user clicks the header of a group or of a sub-group
GroupToggle(key) ==
    /\ openGroups' = handleGroupToggle(openGroups, key)
    /\ userOpened' = IF openGroups'[key] THEN userOpened \cup {key} ELSE userOpened \ {key}
    /\ UNCHANGED <<tabVars, last, cacheVars, matchVars, auxVars>>

NextGroups ==
    \/ \E forceRefresh \in BOOLEAN : LoadStart(forceRefresh)
    \/ \E req \in inflight, data \in GroupTrees : LoadSucceeds(req, data, "both")
    \/ LoadWithoutData
    \/ LoadFails
    \/ \E p \in GroupRoutes : GroupNavigate(p)
    \/ \E key \in ToggleKeys(convertMenusToGroups(menus, lang)) : GroupToggle(key)

SpecGroups == InitCache /\ [][NextGroups]_vars

-----------------------------------------------------------------------------
(* The settling machine: the triggers from outside (route change, menu load,
   locale change, a tab closed by the user) and the effects that run again
   because the tab collection, the route or the menus they depend on changed *)

SettleRoutes == {"/reports", "/fill-form"}

SettleTrees == {FullTree}

\* the session starts without tabs or with two restored tabs of one page
InitSettle ==
    /\ menus = EmptyTree
    /\ tabs \in {<<>>, <<MkTab("/reports", "Report", TRUE), MkTab("/reports", "Reports", TRUE)>>}
    /\ pendingRemovedTabId = NoTab
    /\ prevPath = ""
    /\ location = "/"
    /\ lang = "en"
    /\ initialDup = ~NoDuplicatePath(tabs)
    /\ last = [op |-> "init", path |-> "", tabs |-> tabs, pending |-> NoTab, prev |-> ""]
    /\ CacheInit
    /\ ShellInit

\* the auto-expand effect runs (Layout.tsx:665-727) for the route and menus at hand
AutoExpandAgain ==
    /\ \E groups \in {convertMenusToGroups(menus, lang)} :
          \E og \in {AutoExpand(openGroups, groups, location)} : openGroups' = og
    /\ UNCHANGED <<tabVars, last, cacheVars, userOpened, matchVars, auxVars>>

\* the last trigger from outside has arrived
TriggersEnd ==
    /\ ~quiet
    /\ quiet' = TRUE
    /\ UNCHANGED <<tabVars, last, cacheVars, groupVars, matchVars, lastCall>>

NextSettle ==
    \/ ~quiet /\ \E p \in SettleRoutes : Navigate(p)
    \/ ~quiet /\ \E tree \in SettleTrees : MenuTreeLoaded(tree)
    \/ ~quiet /\ \E lng \in Languages : LocaleChanged(lng)
    \/ ~quiet /\ \E i \in 1..Len(tabs) : CloseTab(tabs[i].id)
    \/ TriggersEnd
    \/ RouteEffectAgain
    \/ LocaleEffectAgain
    \/ AutoExpandAgain

\* React runs an effect after every render in which one of its dependencies
\* has changed: no pending run of an effect is put off for ever
SpecSettle ==
    /\ InitSettle
    /\ [][NextSettle]_vars
    /\ WF_vars(RouteEffectAgain)
    /\ WF_vars(LocaleEffectAgain)
    /\ WF_vars(AutoExpandAgain)

-----------------------------------------------------------------------------
(* The tree machine: findMenuByPath and getMenuTitle called on the tree and in
   the language at hand *)

\* a tree in which a path occurs twice, first below a hidden menu and then at
\* the top level, and in which a hidden menu has a page below it
FindTree ==
    << Node("grp-a", "", "a", FALSE, FALSE, "DB-A", FALSE, FALSE,
            << Node("menu-secret", "/secret", "secret", TRUE, TRUE, "DB-Secret", FALSE, FALSE,
                    << Leaf("menu-deep-1", "/deep", "deepOne", "DB-Deep-1"),
                       Leaf("menu-under", "/under", "under", "DB-Under") >>),
               Leaf("menu-mid", "/mid", "mid", "DB-Mid") >>),
       Leaf("menu-deep-2", "/deep", "deepTwo", "DB-Deep-2"),
       Node("grp-b", "", "b", TRUE, FALSE, "DB-B", FALSE, FALSE,
            << Leaf("menu-mid-2", "/mid", "midTwo", "DB-Mid-2"),
               Leaf("menu-last", "/last", "last", "DB-Last") >>) >>

\* a tree with hidden menus below a visible item: at the third level and at
\* the fourth
VeiledTree ==
    << Node("grp-sys", "", "sys", FALSE, FALSE, "DB-Sys", FALSE, FALSE,
            << Node("menu-settings", "", "settings", FALSE, FALSE, "DB-Settings", FALSE, FALSE,
                    << Leaf("menu-users", "/users", "users", "DB-Users"),
                       Node("menu-user-edit", "/users/edit", "userEdit", TRUE, TRUE,
                            "DB-User-Edit", FALSE, FALSE, <<>>),
                       Node("menu-roles", "", "roles", FALSE, FALSE, "DB-Roles", FALSE, FALSE,
                            << Node("menu-role-edit", "/roles/edit", "roleEdit", TRUE, TRUE,
                                    "DB-Role-Edit", FALSE, FALSE, <<>>) >>) >>),
               Node("menu-keys", "/keys", "keys", TRUE, TRUE, "DB-Keys", FALSE, FALSE, <<>>) >>) >>

HelperTrees == {EmptyTree, FullTree, NestedTree, FindTree, VeiledTree}

FindPaths == {"", "/deep", "/under", "/mid", "/last", "/secret", "/reports", "/k8s/deployments", "/missing"}

\* menus whose name has both translations, a translation that repeats its key,
\* and no translation at all
AssetsNode == Leaf("menu-assets", "/assets-list", "assets", "DB-Assets")
EchoNode == Leaf("menu-echo", "/echo", "echo", "DB-Echo")
RawNode == Leaf("menu-raw", "/raw", "raw", "raw-db-title")

TitleNodes == {AssetsNode, EchoNode, RawNode, ReportsNode, LoginNode, Head(FullTree)}

\* getMenuTitle(menu) is called in the language at hand
TitleEval(menu) ==
    /\ lastCall' = [fn |-> "getMenuTitle", menu |-> menu, lng |-> lang,
                    result |-> getMenuTitle(menu, lang)]
    /\ UNCHANGED <<tabVars, last, cacheVars, groupVars, matchVars, quiet>>

\* convertMenusToGroups(menus) is computed for the sidebar
GroupsEval ==
    /\ lastCall' = [fn |-> "convertMenusToGroups", menuList |-> menus, lng |-> lang,
                    result |-> convertMenusToGroups(menus, lang)]
    /\ UNCHANGED <<tabVars, last, cacheVars, groupVars, matchVars, quiet>>

\* findMenuByPath(path, menus) is called
FindEval(path) ==
    /\ lastCall' = [fn |-> "findMenuByPath", path |-> path, menuList |-> menus,
                    result |-> findMenuByPath(path, menus)]
    /\ UNCHANGED <<tabVars, last, cacheVars, groupVars, matchVars, quiet>>

InitTree ==
    /\ menus = EmptyTree
    /\ tabs = <<>>
    /\ pendingRemovedTabId = NoTab
    /\ prevPath = ""
    /\ location = "/"
    /\ lang = "en"
    /\ initialDup = FALSE
    /\ last = [op |-> "init", path |-> "", tabs |-> tabs, pending |-> NoTab, prev |-> ""]
    /\ CacheInit
    /\ ShellInit

NextTree ==
    \/ \E tree \in HelperTrees : MenuTreeLoaded(tree)
    \/ \E lng \in Languages : LocaleChanged(lng)
    \/ \E path \in FindPaths : FindEval(path)
    \/ \E menu \in TitleNodes : TitleEval(menu)
    \/ GroupsEval

SpecTree == InitTree /\ [][NextTree]_vars

-----------------------------------------------------------------------------
(* Properties of the tab machine (Spec) and of the cache machine (SpecCache) *)

RouteOps == {"navigate", "routeAgain"}

\* the routes of the model that look like static assets or are fullscreen pages
SkippedRoutes ==
    {"/assets/index", "/static/doc", "/logo.PNG",
     "/terminal", "/template-editor", "/template-editor/7"}

\* the routes of the model on which the route-change effect may add a tab
EligibleRoutes == (Routes \ SkippedRoutes) \ {"/login", "/"}

TabsWithPath(ts, path) == {i \in 1..Len(ts) : ts[i].path = path}

Resolves(path, menuList) == findMenuByPath(path, menuList) # NullMenu

\* C1: from a restored collection without duplicates, no sequence of menu loads
\* and route changes (nor of the other tab operations) yields two tabs with the
\* same path.
C1_NoDuplicatePaths == ~initialDup => NoDuplicatePath(tabs)

C1_Witness ==
    /\ ~initialDup
    /\ last.op = "navigate"
    /\ Len(tabs) >= 2
    /\ Len(tabs) > Len(last.tabs)

\* C2: right after the menu-loaded effect has run, running it again on the same
\* tree changes neither the tab collection (tabs, order, titles, closable) nor
\* the PendingRemoval marker.
C2_ReconcileIdempotent ==
    last.op = "menuLoaded" =>
        MenuLoadedEffect(tabs, pendingRemovedTabId, menus, lang)
            = [tabs |-> tabs, pending |-> pendingRemovedTabId]

C2_Witness ==
    /\ last.op = "menuLoaded"
    /\ Len(tabs) > 0
    /\ tabs # last.tabs
    /\ pendingRemovedTabId # last.pending

\* C3: a load that is not forced and finds a snapshot younger than the expiry
\* makes no remote call; a forced load, a load without a snapshot and a load of
\* a snapshot as old as the expiry or older make one.
C3_FreshnessDecidesFetch ==
    lastLoad.op = "load" =>
        /\ (/\ ~lastLoad.force
            /\ lastLoad.cache.kind = "ok"
            /\ lastLoad.age >= 0
            /\ lastLoad.age < CacheExpiry) => ~lastLoad.fetched
        /\ (\/ lastLoad.force
            \/ lastLoad.cache.kind = "none"
            \/ lastLoad.age >= CacheExpiry) => lastLoad.fetched

C3_Witness ==
    /\ lastLoad.op = "load"
    /\ ~lastLoad.force
    /\ lastLoad.cache.kind = "ok"
    /\ lastLoad.age = CacheExpiry
    /\ lastLoad.fetched

\* C4: after a failed remote call the menu tree is the cached snapshot when one
\* can be read, whatever its age, and the empty tree otherwise.
C4_FailureFallsBack ==
    lastLoad.op = "failed" =>
        menus = IF lastLoad.cache.kind = "ok" THEN lastLoad.cache.data ELSE EmptyTree

C4_Witness ==
    /\ lastLoad.op = "failed"
    /\ lastLoad.cache.kind = "ok"
    /\ lastLoad.age >= CacheExpiry
    /\ menus = lastLoad.cache.data
    /\ menus # EmptyTree

\* C5 as claimed: whatever tree is loaded, no tab of the retired path is left
\* after the menu-loaded effect.
C5_Original == last.op = "menuLoaded" => ~HasPath(tabs, RetiredPath)

\* C5 (amended): after the menu-loaded effect has run on a non-empty tree no tab
\* of the retired path is left, closable or not.
C5_RetiredEvicted ==
    (last.op = "menuLoaded" /\ Len(menus) > 0) => ~HasPath(tabs, RetiredPath)

C5_Witness ==
    /\ last.op = "menuLoaded"
    /\ Resolves(RetiredPath, menus)
    /\ \E i \in 1..Len(last.tabs) :
          last.tabs[i].path = RetiredPath /\ ~last.tabs[i].closable
    /\ ~HasPath(tabs, RetiredPath)

\* C6 as claimed: two tabs of one path that resolves, one with the fresh title
\* and one with a stale title, leave exactly one tab of that path, freshly
\* titled, after the menu-loaded effect, in either order.
C6_Original ==
    last.op = "menuLoaded" =>
        \A path \in {last.tabs[i].path : i \in 1..Len(last.tabs)} :
            LET menu == findMenuByPath(path, menus)
                before == TabsWithPath(last.tabs, path)
                after == TabsWithPath(tabs, path)
            IN (/\ menu # NullMenu
                /\ path # RetiredPath
                /\ Cardinality(before) = 2
                /\ \E i, j \in before :
                      /\ last.tabs[i].title = getMenuTitle(menu, lang)
                      /\ last.tabs[j].title # getMenuTitle(menu, lang))
               => /\ Cardinality(after) = 1
                  /\ \A i \in after : tabs[i].title = getMenuTitle(menu, lang)

\* C7 as claimed: after the menu-loaded effect every tab resolves in the tree,
\* for every tree including the empty one.
C7_Original ==
    last.op = "menuLoaded" => \A i \in 1..Len(tabs) : Resolves(tabs[i].path, menus)

\* C7 (amended): after the menu-loaded effect has run on a non-empty tree every
\* tab left resolves in that tree.
C7_UnresolvedPruned ==
    (last.op = "menuLoaded" /\ Len(menus) > 0) =>
        \A i \in 1..Len(tabs) : Resolves(tabs[i].path, menus)

C7_Witness ==
    /\ last.op = "menuLoaded"
    /\ Len(menus) > 0
    /\ Len(tabs) > 0
    /\ \E i \in 1..Len(last.tabs) :
          last.tabs[i].path # RetiredPath /\ ~Resolves(last.tabs[i].path, menus)

\* C8: when the route-change effect runs again on the route whose tab was just
\* closed (the marker is that tab's id and the tab is gone), it does not open
\* the tab again.
C8_ClosedTabNotResurrected ==
    (/\ last.op = "routeAgain"
     /\ last.pending = TabId(last.path)
     /\ ~HasTab(last.tabs, TabId(last.path))) => ~HasTab(tabs, TabId(last.path))

C8_Witness ==
    /\ last.op = "routeAgain"
    /\ last.path \in EligibleRoutes
    /\ last.pending = TabId(last.path)
    /\ ~HasTab(last.tabs, TabId(last.path))
    /\ Resolves(last.path, menus)
    /\ findMenuByPath(last.path, menus).component
    /\ ~HasTab(tabs, TabId(last.path))

\* the marker as the route-change effect reads it: the id of the previous
\* route's tab when this run has just closed it, else the marker as it was
C9_MarkerRead ==
    IF /\ last.prev # ""
       /\ last.prev # last.path
       /\ HasTab(last.tabs, TabId(last.prev))
       /\ ~HasTab(tabs, TabId(last.prev))
    THEN TabId(last.prev)
    ELSE last.pending

\* C9: on an eligible route with a loaded tree the route-change effect opens a
\* tab for the route exactly when the route resolves to a menu with a page, no
\* tab of the route is open and the route is not the PendingRemoval marker; a
\* route that resolves to nothing or to a menu without a page gets no tab.
C9_TabCreatedIff ==
    (last.op \in RouteOps /\ last.path \in EligibleRoutes /\ Len(menus) > 0) =>
        LET id == TabId(last.path)
            menu == findMenuByPath(last.path, menus)
        IN (~HasTab(last.tabs, id) /\ HasTab(tabs, id))
               <=> (/\ menu # NullMenu
                    /\ menu.component
                    /\ ~HasTab(last.tabs, id)
                    /\ C9_MarkerRead # id)

C9_Witness ==
    /\ last.op = "navigate"
    /\ last.path \in EligibleRoutes
    /\ Len(menus) > 0
    /\ last.pending # NoTab
    /\ ~HasTab(last.tabs, TabId(last.path))
    /\ HasTab(tabs, TabId(last.path))

FullscreenRoutes == {"/terminal", "/template-editor", "/permissions"}

\* C11 as claimed: no tab is ever open for /terminal, /template-editor or
\* /permissions, whether the route was reached by a sidebar click or by a route
\* change, even when the tree has a page for it.
C11_Original ==
    \A i \in 1..Len(tabs) : tabs[i].path \notin FullscreenRoutes

NoLoginRootTab(ts) == \A i \in 1..Len(ts) : ts[i].path \notin {"/login", "/"}

\* C12: a route change or a menu-tree load that starts without a tab for /login
\* or / ends without one, so from a collection without such a tab no sequence
\* of route changes and menu-tree loads opens one.
C12_NoLoginRootTab ==
    [][(last'.op \in {"navigate", "routeAgain", "menuLoaded"} /\ NoLoginRootTab(tabs))
           => NoLoginRootTab(tabs')]_vars

C12_Witness ==
    /\ last.op = "navigate"
    /\ last.path \in {"/login", "/"}
    /\ Resolves(last.path, menus)
    /\ findMenuByPath(last.path, menus).component
    /\ last.pending # TabId(last.path)
    /\ Len(tabs) > 0
    /\ NoLoginRootTab(tabs)

\* C13: after the locale effect has run, every open tab whose path resolves in
\* the tree is titled as getMenuTitle titles its menu in the language now set.
C13_LocaleRetitles ==
    last.op = "localeChanged" =>
        \A i \in 1..Len(tabs) :
            Resolves(tabs[i].path, menus) =>
                tabs[i].title = getMenuTitle(findMenuByPath(tabs[i].path, menus), lang)

C13_Witness ==
    /\ last.op = "localeChanged"
    /\ lang = "zh"
    /\ Len(tabs) >= 2
    /\ Len(last.tabs) = Len(tabs)
    /\ \A i \in 1..Len(tabs) : tabs[i].title # last.tabs[i].title

ServiceDetailPaths == {"/services/42", "/services/web"}
ServiceDeepPaths == {"/services/42/logs", "/services/42/logs/1"}

\* C17: /services is active on /services/<id> with one segment after /services
\* and not active on a path with two or more segments after /services.
C17_ServicesDetail ==
    lastEval.menuPath = "/services" =>
        /\ lastEval.currentPath \in ServiceDetailPaths => lastEval.result
        /\ lastEval.currentPath \in ServiceDeepPaths => ~lastEval.result

C17_Witness ==
    /\ lastEval.menuPath = "/services"
    /\ lastEval.currentPath = "/services/42/logs"
    /\ ~lastEval.result

\* currentPath is menuPath, a slash and exactly one more segment
OneSegmentBelow(menuPath, currentPath) ==
    /\ StartsWith(currentPath, menuPath \o "/")
    /\ Len(PathParts(currentPath)) = Len(PathParts(menuPath)) + 1
    /\ currentPath # menuPath

\* C18 as claimed: every menuPath is active on every currentPath made of
\* menuPath, a slash and exactly one more segment.
C18_Original ==
    (lastEval # NoEval /\ OneSegmentBelow(lastEval.menuPath, lastEval.currentPath))
        => lastEval.result

\* C18 (amended): /services and the menu paths under /k8s/ are active on every
\* currentPath made of menuPath, a slash and exactly one more segment; another
\* menuPath is not active on such a path (unless a rule about ticket pages or
\* cluster pages applies).
C18_DetailRoutes ==
    (lastEval # NoEval /\ OneSegmentBelow(lastEval.menuPath, lastEval.currentPath)) =>
        /\ (lastEval.menuPath = "/services" \/ StartsWith(lastEval.menuPath, "/k8s/"))
               => lastEval.result
        /\ lastEval.menuPath = "/hosts" => ~lastEval.result

C18_Witness ==
    /\ lastEval.menuPath = "/k8s/pods"
    /\ lastEval.currentPath = "/k8s/pods/c1"
    /\ lastEval.result

TicketPaths == {c \in CurrentPaths : StartsWith(c, "/ticket/")}

ActiveMenus(currentPath) == {m \in MenuPaths : isPathActive(m, currentPath)}

\* C19 as claimed: on a ticket page exactly one menuPath is active, whatever the
\* navigation state, the referrer and the stored hint.
C19_Original ==
    \A c \in TicketPaths : Cardinality(ActiveMenus(c)) = 1

\* C19 (amended): on a ticket page exactly one menuPath other than the page's own
\* path is active, whatever the navigation state, the referrer and the stored
\* hint; the page's own path is active as well, by the exact match.
C19_OneOrigin ==
    \A c \in TicketPaths :
        /\ Cardinality(ActiveMenus(c) \ {c}) = 1
        /\ c \in MenuPaths => c \in ActiveMenus(c)

C19_Witness ==
    /\ navFrom = ""
    /\ referrer = "https://ops.example/my-tickets"
    /\ storedFrom = "/all-tickets"
    /\ ActiveMenus("/ticket/55") = {"/ticket/55", "/my-tickets"}
    /\ lastEval.currentPath = "/ticket/55"

\* the menu each referrer of the model stands for
C20_ReferrerMenu(ref) ==
    CASE ref = "https://ops.example/my-tickets" -> "/my-tickets"
      [] ref = "https://ops.example/fill-ticket-form?id=3" -> "/daily-workorders"
      [] OTHER -> ""

C20_Origin(from, ref, stored) ==
    IF from # "" THEN from
    ELSE IF C20_ReferrerMenu(ref) # "" THEN C20_ReferrerMenu(ref)
    ELSE IF stored # "" THEN stored
    ELSE "/my-tickets"

\* C20: on a ticket page a menuPath other than the page's own path is active
\* exactly when it is the origin chosen in the order navigation state, referrer,
\* stored hint, /my-tickets; with none of the three, /my-tickets is active and
\* /all-tickets is not.
C20_OriginPriority ==
    (/\ lastEval # NoEval
     /\ StartsWith(lastEval.currentPath, "/ticket/")
     /\ lastEval.menuPath # lastEval.currentPath)
        => (lastEval.result
               <=> lastEval.menuPath
                       = C20_Origin(lastEval.from, lastEval.referrer, lastEval.stored))

C20_Witness ==
    /\ lastEval.currentPath = "/ticket/55"
    /\ lastEval.menuPath = "/all-tickets"
    /\ lastEval.from = ""
    /\ lastEval.referrer = "https://ops.example/hosts"
    /\ lastEval.stored = "/all-tickets"
    /\ lastEval.result

IsOpen(key) == key \in DOMAIN openGroups /\ openGroups[key]

\* C14 as claimed: a group or sub-group the user has opened, and which the
\* sidebar still shows, stays open until the user toggles it again.
C14_Original ==
    \A key \in userOpened \cap ToggleKeys(convertMenusToGroups(menus, lang)) : IsOpen(key)

\* C15: every group built from the menu tree has an item; a visible top-level
\* menu whose children are all hidden gives no group, and a visible top-level
\* menu without children gives a group whose only item is the menu itself.
C15_GroupsNonEmpty ==
    LET groups == convertMenusToGroups(menus, lang) IN
    /\ \A g \in 1..Len(groups) : Len(groups[g].items) >= 1
    /\ \A i \in 1..Len(menus) :
          ~menus[i].hidden =>
              /\ (/\ Len(menus[i].children) > 0
                  /\ \A j \in 1..Len(menus[i].children) : menus[i].children[j].hidden)
                     => \A g \in 1..Len(groups) : groups[g].id # menus[i].id
              /\ Len(menus[i].children) = 0
                     => \E g \in 1..Len(groups) :
                           /\ groups[g].id = menus[i].id
                           /\ Len(groups[g].items) = 1
                           /\ groups[g].items[1].id = menus[i].id
                           /\ groups[g].items[1].path = menus[i].path

C15_Witness ==
    /\ menus = NestedTree
    /\ lastLoad.op = "succeeded"
    /\ Len(convertMenusToGroups(menus, lang)) = 2

-----------------------------------------------------------------------------
(* Properties of the PendingRemoval marker and of the reconciliation passes *)

Routable(path, menuList) ==
    findMenuByPath(path, menuList) # NullMenu /\ findMenuByPath(path, menuList).component

\* the last run of the route-change effect was on path, found its menu with a
\* page and no tab of it, and created no tab because the marker was its id
C21_SkippedByMarker(path) ==
    /\ last.op \in RouteOps
    /\ last.path = path
    /\ Len(menus) > 0
    /\ Routable(path, menus)
    /\ ~HasTab(last.tabs, TabId(path))
    /\ C9_MarkerRead = TabId(path)
    /\ ~HasTab(tabs, TabId(path))

Quiescent ==
    /\ RouteEffect(location, menus, tabs, pendingRemovedTabId, prevPath)
           = [tabs |-> tabs, pending |-> pendingRemovedTabId, prev |-> prevPath]
    /\ LocaleEffect(tabs, menus, lang) = tabs
    /\ AutoExpand(openGroups, convertMenusToGroups(menus, lang), location) = openGroups

\* C22: from any state reached, once no trigger arrives from outside any more,
\* the effects that run again reach a state in which none of them writes
\* anything, and stay there.
C22_EffectsSettle == quiet ~> []Quiescent

C22_Witness ==
    /\ quiet
    /\ Quiescent
    /\ last.op = "localeChanged"
    /\ Len(tabs) >= 2
    /\ tabs # last.tabs
    /\ pendingRemovedTabId # NoTab
    /\ Len(menus) > 0
    /\ \E k \in DOMAIN openGroups : openGroups[k]

\* the tabs the first two steps of a pass on menuList remove from ts
RemovedEarly(ts, menuList) ==
    {i \in 1..Len(ts) : ts[i].path = RetiredPath \/ ~Resolves(ts[i].path, menuList)}

\* C23: in a pass of the menu-loaded effect on a non-empty tree the retired tabs
\* are evicted and the unresolved tabs pruned before closable is recomputed, and
\* dedup and retitle come last: a tab the first two steps remove is neither
\* brought back by the retitle nor closed again by the dedup (the marker is not
\* set to it), and the dedup closes duplicates by the recomputed closable, so
\* that no page that is not pinned keeps two tabs and every tab left has the
\* closable of its menu.
C23_PassOrder ==
    (last.op = "menuLoaded" /\ Len(menus) > 0) =>
        /\ \A i \in RemovedEarly(last.tabs, menus) :
              /\ ~HasPath(tabs, last.tabs[i].path)
              /\ pendingRemovedTabId = last.tabs[i].id => last.pending = last.tabs[i].id
        /\ \A i \in 1..Len(tabs) :
              LET menu == findMenuByPath(tabs[i].path, menus) IN
              /\ menu # NullMenu
              /\ tabs[i].closable = ~menu.meta.pinned
              /\ ~menu.meta.pinned => Cardinality(TabsWithPath(tabs, tabs[i].path)) = 1

C23_Witness ==
    /\ last.op = "menuLoaded"
    /\ Len(menus) > 0
    /\ \E i \in RemovedEarly(last.tabs, menus) :
          /\ last.tabs[i].path = RetiredPath
          /\ Resolves(RetiredPath, menus)
          /\ last.tabs[i].title # getMenuTitle(findMenuByPath(RetiredPath, menus), lang)
    /\ \E i \in 1..Len(last.tabs) : last.tabs[i].path # RetiredPath
    /\ Len(tabs) > 0

\* the last run of the route-change effect left a page whose menu has closeTab
C24_LeftCloseOnLeave ==
    /\ last.prev # ""
    /\ last.prev # last.path
    /\ Resolves(last.prev, menus)
    /\ findMenuByPath(last.prev, menus).meta.closeTab

\* C24: a run of the route-change effect on a route that is not skipped and
\* differs from the remembered previous path, whose menu has closeTab, leaves no
\* tab of the previous path; the removal comes before the creation, so the
\* creation of the current route's tab reads the marker the removal has set and
\* is not held back by an older marker; a run on the remembered previous path
\* itself removes no tab.
C24_AutoCloseFirst ==
    (last.op \in RouteOps /\ last.path \notin SkippedRoutes) =>
        /\ C24_LeftCloseOnLeave => ~HasTab(tabs, TabId(last.prev))
        /\ (/\ C24_LeftCloseOnLeave
            /\ HasTab(last.tabs, TabId(last.prev))
            /\ last.path \in EligibleRoutes
            /\ Routable(last.path, menus)
            /\ ~HasTab(last.tabs, TabId(last.path)))
               => /\ HasTab(tabs, TabId(last.path))
                  /\ pendingRemovedTabId = TabId(last.prev)
        /\ last.prev = last.path =>
               \A i \in 1..Len(last.tabs) : HasTab(tabs, last.tabs[i].id)

C24_Witness ==
    /\ last.op = "navigate"
    /\ C24_LeftCloseOnLeave
    /\ HasTab(last.tabs, TabId(last.prev))
    /\ last.pending = TabId(last.path)
    /\ ~HasTab(last.tabs, TabId(last.path))
    /\ HasTab(tabs, TabId(last.path))
    /\ ~HasTab(tabs, TabId(last.prev))

-----------------------------------------------------------------------------
(* Properties of the sidebar groups after route changes and loads *)

\* some item of items, or some item below one of them at any depth, is active
RECURSIVE ContainsActive(_, _)
ContainsActive(items, pathname) ==
    \E i \in 1..Len(items) :
        \/ isPathActive(items[i].path, pathname)
        \/ ContainsActive(items[i].children, pathname)

\* the keys of the sub-groups among items, at any depth, that contain an active item
RECURSIVE ActiveSubGroupKeys(_, _, _)
ActiveSubGroupKeys(group, items, pathname) ==
    UNION {(IF ContainsActive(items[i].children, pathname)
            THEN {SubGroupKey(group, items[i])} ELSE {})
               \cup ActiveSubGroupKeys(group, items[i].children, pathname) :
           i \in 1..Len(items)}

\* the keys of the groups and sub-groups that contain an active item
ActiveKeys(groups, pathname) ==
    {groups[g].id : g \in {h \in 1..Len(groups) : ContainsActive(groups[h].items, pathname)}}
    \cup
    UNION {ActiveSubGroupKeys(groups[g], groups[g].items, pathname) : g \in 1..Len(groups)}

\* C25 as claimed: after every step that changes the route or the menu tree,
\* each group and each sub-group that contains an active item, at any depth,
\* has its expansion entry true.
C25_Original ==
    [][(location' # location \/ menus' # menus) =>
          \A key \in ActiveKeys(convertMenusToGroups(menus', lang'), location') :
              key \in DOMAIN openGroups' /\ openGroups'[key]]_vars

-----------------------------------------------------------------------------
(* Properties of overlapping loads and of the cache writes *)

\* C26: when a call of getUserMenus() resolves with data and both cache entries
\* are written, the menu tree, the cached snapshot and the cached timestamp are
\* those of this response, whether or not a later call was made while this one
\* was awaited: of two overlapping loads the one that completes last decides
\* all three.
C26_LastCompletedWins ==
    (lastLoad.op = "succeeded" /\ lastLoad.written = "both") =>
        /\ menus = lastLoad.data
        /\ cachedMenus = Snapshot(lastLoad.data)
        /\ cachedTimestamp = now

\* the call made first resolves last, after the call made second has resolved
\* with another tree in the same minute
C26_Witness ==
    /\ lastLoad.op = "succeeded"
    /\ lastLoad.written = "both"
    /\ lastLoad.req = 1
    /\ fetchCalls = 2
    /\ inflight = {}
    /\ now > 0
    /\ lastLoad.age = 0
    /\ lastLoad.cache.kind = "ok"
    /\ lastLoad.cache.data # lastLoad.data
    /\ menus = lastLoad.data

\* C27: when a call of getUserMenus() resolves with data and a cache write
\* fails, the menu tree is the fetched one and fetchMenus goes on as after a
\* successful write (the expansion state is set up for the fetched tree); the
\* cache keeps what was written before the failure.
C27_WriteFailureTolerated ==
    (lastLoad.op = "succeeded" /\ lastLoad.written # "both") =>
        /\ menus = lastLoad.data
        /\ \A i \in 1..Len(lastLoad.data) : lastLoad.data[i].id \in DOMAIN openGroups
        /\ cachedMenus = IF lastLoad.written = "menus"
                         THEN Snapshot(lastLoad.data) ELSE lastLoad.cache

C27_Witness ==
    /\ lastLoad.op = "succeeded"
    /\ lastLoad.written = "none"
    /\ lastLoad.data # EmptyTree
    /\ menus = lastLoad.data
    /\ cachedMenus.kind = "ok"
    /\ cachedMenus.data # lastLoad.data

-----------------------------------------------------------------------------
(* Properties of the tree helpers *)

\* the nodes of a tree in depth-first pre-order, hidden or not
RECURSIVE Preorder(_)
Preorder(menuList) ==
    IF Len(menuList) = 0 THEN <<>>
    ELSE <<Head(menuList)>> \o Preorder(Head(menuList).children) \o Preorder(Tail(menuList))

\* C28: findMenuByPath gives the first node in depth-first pre-order whose path
\* is the query, hidden nodes and the nodes below them included, and null
\* exactly when no node of the tree has that path.
C28_FirstInPreorder ==
    lastCall.fn = "findMenuByPath" =>
        LET nodes == Preorder(lastCall.menuList)
            hits == {i \in 1..Len(nodes) : nodes[i].path = lastCall.path}
        IN IF hits = {} THEN lastCall.result = NullMenu
           ELSE lastCall.result = nodes[CHOOSE i \in hits : \A j \in hits : i <= j]

C28_Witness ==
    /\ lastCall.fn = "findMenuByPath"
    /\ lastCall.menuList = FindTree
    /\ lastCall.path = "/deep"
    /\ lastCall.result.id = "menu-deep-1"

\* the title the translation bundle of the model gives each name: the
\* group-scope text, else the item-scope text, else the name
C29_Expected(name, lng) ==
    CASE name = "assets" /\ lng = "en" -> "Assets"
      [] name = "assets" /\ lng = "zh" -> "ZiChan"
      [] name = "ops" /\ lng = "en" -> "Operations"
      [] name = "ops" /\ lng = "zh" -> "YunWei"
      [] name = "reports" /\ lng = "en" -> "Reports"
      [] name = "reports" /\ lng = "zh" -> "BaoBiao"
      [] name = "echo" /\ lng = "en" -> "Echo"
      [] OTHER -> name

\* C29: getMenuTitle gives the group-scope translation of the menu's name when
\* there is one, else the item-scope translation when there is one, else the
\* name itself; a translation that is empty or repeats its key counts as
\* missing, and the title of the database (meta.title) is never given.
C29_TitleFromName ==
    lastCall.fn = "getMenuTitle" =>
        /\ lastCall.result = C29_Expected(lastCall.menu.name, lastCall.lng)
        /\ lastCall.result # lastCall.menu.meta.title
        /\ lastCall.result \notin {"", "menu.groups." \o lastCall.menu.name,
                                   "menu." \o lastCall.menu.name}

C29_Witness ==
    /\ lastCall.fn = "getMenuTitle"
    /\ lastCall.menu = EchoNode
    /\ lastCall.lng = "zh"
    /\ lastCall.result = "echo"

\* the ids of the hidden menus of a tree, at any depth
RECURSIVE HiddenIds(_)
HiddenIds(menuList) ==
    UNION {(IF menuList[i].hidden THEN {menuList[i].id} ELSE {})
               \cup HiddenIds(menuList[i].children) : i \in 1..Len(menuList)}

\* the ids of the items of a sequence and of the items nested in them
RECURSIVE ItemIds(_)
ItemIds(items) ==
    UNION {{items[i].id} \cup ItemIds(items[i].children) : i \in 1..Len(items)}

\* the ids of the groups, of their items and of the nested items
ShownIds(groups) ==
    {groups[g].id : g \in 1..Len(groups)}
    \cup UNION {ItemIds(groups[g].items) : g \in 1..Len(groups)}

\* C30 as claimed: no hidden menu is in the groups built from the menu tree,
\* neither as a group, nor as an item, nor as a nested item at any depth.
C30_Original ==
    lastCall.fn = "convertMenusToGroups" =>
        ShownIds(lastCall.result) \cap HiddenIds(lastCall.menuList) = {}

-----------------------------------------------------------------------------
(* Properties of empty paths, of the automatic close, of late menu loads and
   of the locale change *)

\* C31: a menu with an empty path is never a navigation target: isPathActive
\* of the empty menu path is false on every route and with every hint about
\* the origin, and no tab is bound to an empty path, whatever routes were
\* visited.
C31_EmptyPathNeverTarget ==
    /\ lastEval.menuPath = "" => ~lastEval.result
    /\ \A i \in 1..Len(tabs) : tabs[i].path # "" /\ tabs[i].id # "home"

C31_Witness ==
    /\ lastEval.menuPath = ""
    /\ lastEval.currentPath = "/ticket/55"
    /\ lastEval.from = "" /\ lastEval.stored = "" /\ lastEval.referrer = ""
    /\ menus = TicketTree
    /\ Len(tabs) = 1
    /\ location = "/ticket/55"

\* the last route change left path p, whose menu has closeTab, and the
\* route-change effect closed the tab of p
C32_JustAutoClosed(p) ==
    /\ last.op = "navigate"
    /\ last.prev = p
    /\ last.path # p
    /\ HasTab(last.tabs, TabId(p))
    /\ ~HasTab(tabs, TabId(p))
    /\ Routable(p, menus)
    /\ findMenuByPath(p, menus).meta.closeTab

\* C32 as claimed: after the tab of a closeTab page p was closed because the
\* route left p, the route change back to p, still a page of the menu,
\* creates the tab of p again.
C32_Original ==
    [][\A p \in EligibleRoutes :
          (/\ C32_JustAutoClosed(p)
           /\ location' = p
           /\ last'.op = "navigate")
             => HasTab(tabs', TabId(p))]_vars

\* the route is p, a page of the loaded tree, without a tab and without the
\* marker on it
C33_AwaitsTab(p) ==
    /\ location = p
    /\ Len(menus) > 0
    /\ Routable(p, menus)
    /\ ~HasTab(tabs, TabId(p))
    /\ pendingRemovedTabId # TabId(p)

\* C33: when the route is an eligible page of the loaded tree that has no tab,
\* as after a route entered before the tree was there, and the marker is not
\* on it, the tab of the route exists at some later point unless the route
\* changes first.
C33_LateTreeGetsTab ==
    \A p \in SettleRoutes :
        C33_AwaitsTab(p) ~> (HasTab(tabs, TabId(p)) \/ location # p)

\* the tree has just arrived on a route that was entered without a tree
C33_Witness ==
    /\ last.op = "menuLoaded"
    /\ last.tabs = <<>>
    /\ last.pending = NoTab
    /\ prevPath = "/reports"
    /\ C33_AwaitsTab("/reports")

\* a tab without its title
C34_Untitled(tab) == [id |-> tab.id, path |-> tab.path, closable |-> tab.closable]

\* C34: a change of the language changes the titles of the tabs only: the
\* paths of the open tabs, their order, their closable flags and the
\* PendingRemoval marker are after it what they were before it.
C34_LocaleChangesTitlesOnly ==
    last.op = "localeChanged" =>
        /\ Len(tabs) = Len(last.tabs)
        /\ \A i \in 1..Len(tabs) : C34_Untitled(tabs[i]) = C34_Untitled(last.tabs[i])
        /\ pendingRemovedTabId = last.pending

\* of two open tabs the first has been retitled and the second has not
C34_Witness ==
    /\ last.op = "localeChanged"
    /\ Len(tabs) = 2
    /\ Len(last.tabs) = 2
    /\ tabs[1].title # last.tabs[1].title
    /\ tabs[2].title = last.tabs[2].title

=============================================================================
